---- MODULE Spec2Model ----
(***************************************************************************)
(* Model of scripts/detect-domains.py: the cache store (read_cache,        *)
(* write_cache), the structural hash and the three-tier staleness check    *)
(* (check_stale).                                                          *)
(*                                                                         *)
(* Spec       one staleness check over a project, a repository and a cache *)
(*            file drawn from bounded sets.                                *)
(* SpecCache  concurrent write_cache and read_cache calls on one path.     *)
(***************************************************************************)
EXTENDS Integers, Sequences, FiniteSets, TLC

VARIABLES
    project,    \* project root: file name -> entry (absent, or a file with content and mtime)
    repo,       \* the project's .git: whether it exists, is shallow, and its commits
    cacheFile,  \* what is stored at cache_path
    run,        \* the last check_stale call: its return value and what it looked at
    tmpFiles,   \* writer -> the temporary file mkstemp gave it
    wpc,        \* writer -> position inside write_cache
    rpc,        \* reader -> position inside read_cache
    robs,       \* reader -> the file content its read_text returned
    wargs,      \* writer -> the arguments of its write_cache call, and the step that raised
    catalogue,  \* the file at index_path: the domain catalogue
    proc,       \* the run of main() in progress, or the one that ended last
    prev,       \* the run of main() that ended before that one
    out         \* the value the last call of a pure function returned

vars == <<project, repo, cacheFile, run, tmpFiles, wpc, rpc, robs, wargs, catalogue, proc, prev, out>>

(***************************************************************************)
(* Bounds of the model.                                                    *)
(***************************************************************************)
MaxTime == 1        \* instants are 0..MaxTime (detected_at, mtimes, commit times)
MaxCommits == 1     \* commits in the repository's history
NumWriters == 2     \* concurrent write_cache calls
NumReaders == 1     \* concurrent read_cache calls

Times == 0..MaxTime

(***************************************************************************)
(* Program constants.                                                      *)
(***************************************************************************)
CACHE_VERSION == 1

STRUCTURAL_FILES ==
    { "package.json", "Cargo.toml", "go.mod", "pyproject.toml",
      "requirements.txt", "Gemfile", "build.gradle", "build.gradle.kts",
      "project.godot", "pom.xml", "CMakeLists.txt", "Makefile" }

STRUCTURAL_EXTENSIONS == { ".gd", ".tscn", ".unity", ".uproject" }

\* sorted(STRUCTURAL_FILES): code-point order, upper case before lower case
SortedStructuralFiles ==
    << "CMakeLists.txt", "Cargo.toml", "Gemfile", "Makefile", "build.gradle",
       "build.gradle.kts", "go.mod", "package.json", "pom.xml", "project.godot",
       "pyproject.toml", "requirements.txt" >>

\* exit codes of check_stale
FRESH == 0
STALE == 3
NO_CACHE == 4

(***************************************************************************)
(* YAML values. Every value is a record of one shape so that values of     *)
(* different Python types can be compared: t is the type, i the number of  *)
(* an int/float/bool (or the instant an ISO-8601 string denotes), s the    *)
(* text of a string, l the items of a list.                                *)
(***************************************************************************)
YNull     == [t |-> "null",  i |-> 0, s |-> "", l |-> <<>>]
YInt(n)   == [t |-> "int",   i |-> n, s |-> "", l |-> <<>>]
YFloat(n) == [t |-> "float", i |-> n, s |-> "", l |-> <<>>]   \* the float n.0
YBool(b)  == [t |-> "bool",  i |-> IF b THEN 1 ELSE 0, s |-> "", l |-> <<>>]
YStr(x)   == [t |-> "str",   i |-> 0, s |-> x, l |-> <<>>]
YIso(n)   == [t |-> "str",   i |-> n, s |-> "iso8601", l |-> <<>>]  \* isoformat() of instant n
YList(x)  == [t |-> "list",  i |-> 0, s |-> "", l |-> x]
YTimestamp(n) == [t |-> "timestamp", i |-> n, s |-> "", l |-> <<>>]  \* datetime of instant n

\* Python truthiness of a value
Truthy(v) ==
    CASE v.t = "null"  -> FALSE
      [] v.t = "bool"  -> v.i = 1
      [] v.t = "int"   -> v.i # 0
      [] v.t = "float" -> v.i # 0
      [] v.t = "str"   -> v.s # ""
      [] v.t = "list"  -> v.l # <<>>
      [] v.t = "timestamp" -> TRUE

(***************************************************************************)
(* Files. A YAML document is a sequence of lines; a line is a top-level    *)
(* key with its value. Three lines are special: the comment header, a line *)
(* that is not YAML at all, and a document that is a bare scalar.          *)
(***************************************************************************)
Line(k, v)  == [k |-> k, v |-> v]
HeaderLine  == Line("#", YNull)          \* "# Auto-detected by flux-drive. Edit to override."
GarbageLine == Line("!garbage", YNull)   \* makes the YAML parser raise
ScalarLine  == Line("!scalar", YNull)    \* a document that is a scalar, not a mapping

NoFile          == [kind |-> "absent", content |-> <<>>]
UnreadableFile  == [kind |-> "unreadable", content |-> <<>>]   \* exists, read_text raises
File(content)   == [kind |-> "file", content |-> content]

\* the lines of a document that are not comments
RECURSIVE DataLines(_)
DataLines(content) ==
    IF content = <<>> THEN <<>>
    ELSE IF Head(content).k # "#"
         THEN <<Head(content)>> \o DataLines(Tail(content))
         ELSE DataLines(Tail(content))

\* yaml.safe_load(text): an error, None (empty document), a non-mapping, or a dict
yaml_safe_load(content) ==
    LET body == DataLines(content)
        keys == {body[n].k : n \in 1..Len(body)}
    IN  IF "!garbage" \in keys THEN [t |-> "error", d |-> <<>>]
        ELSE IF body = <<>> THEN [t |-> "none", d |-> <<>>]
        ELSE IF "!scalar" \in keys
             THEN IF keys = {"!scalar"} THEN [t |-> "scalar", d |-> <<>>]
                  ELSE [t |-> "error", d |-> <<>>]
        ELSE [t |-> "dict", d |-> body]

\* key in dict
HasKey(d, k) == \E n \in 1..Len(d) : d[n].k = k

\* dict.get(k): the value of the last line with that key, None when there is none
DictGet(d, k) ==
    IF HasKey(d, k)
    THEN d[CHOOSE n \in 1..Len(d) : d[n].k = k /\ \A m \in (n+1)..Len(d) : d[m].k # k].v
    ELSE YNull

\* dict.get(k, default)
DictGetDefault(d, k, default) == IF HasKey(d, k) THEN DictGet(d, k) ELSE default

\* str(v) for the values a detected_at field holds
PyStr(v) ==
    CASE v.t = "str"  -> v
      [] v.t = "null" -> YStr("None")
      [] v.t = "timestamp" -> YIso(v.i)
      [] OTHER        -> YStr("?")

(***************************************************************************)
(* Structural hash.                                                        *)
(***************************************************************************)
\* An entry of a directory: what kind of thing it is, its bytes, its mtime,
\* whether opening it succeeds, and (for a directory) its own entries.
AbsentEntry == [kind |-> "absent", content |-> "", mtime |-> 0, readable |-> FALSE, children |-> <<>>]
FileEntry(c, m) == [kind |-> "file", content |-> c, mtime |-> m, readable |-> TRUE, children |-> <<>>]
\* a regular file that read_bytes/read_text cannot open (OSError)
UnreadableEntry(c, m) == [kind |-> "file", content |-> c, mtime |-> m, readable |-> FALSE, children |-> <<>>]
\* a directory; readable is whether iterdir() succeeds
DirEntry(children, listable) ==
    [kind |-> "dir", content |-> "", mtime |-> 0, readable |-> listable, children |-> children]

\* (project / name).is_file()
is_file(proj, name) == name \in DOMAIN proj /\ proj[name].kind = "file"

\* hashlib.sha256(x).hexdigest(), taken as collision-free: the digest names its input
sha256_hexdigest(x) == "H(" \o x \o ")"

RECURSIVE JoinLines(_)
JoinLines(parts) ==
    IF parts = <<>> THEN ""
    ELSE IF Len(parts) = 1 THEN Head(parts)
    ELSE Head(parts) \o "\n" \o JoinLines(Tail(parts))

\* a hash part that also finds the name one directory below the root
HashPartDeep(proj, name) ==
    LET below == {d \in DOMAIN proj : /\ proj[d].kind = "dir"
                                      /\ name \in DOMAIN proj[d].children
                                      /\ proj[d].children[name].kind = "file"}
        file_hash == IF is_file(proj, name) /\ proj[name].readable
                     THEN sha256_hexdigest(proj[name].content)
                     ELSE IF below # {}
                          THEN sha256_hexdigest(proj[CHOOSE d \in below : TRUE].children[name].content)
                          ELSE "__absent__"
    IN  name \o ":" \o file_hash

\* a hash part that takes a file that is not there for an empty file
HashPartAbsentAsEmpty(proj, name) ==
    LET file_hash == IF is_file(proj, name) /\ proj[name].readable
                     THEN sha256_hexdigest(proj[name].content)
                     ELSE sha256_hexdigest("")
    IN  name \o ":" \o file_hash

HashPart(proj, name) ==
    LET file_hash == IF is_file(proj, name)
                     THEN IF proj[name].readable
                          THEN sha256_hexdigest(proj[name].content)
                          ELSE "__absent__"
                     ELSE "__absent__"
    IN  name \o ":" \o file_hash

HashParts(proj) == [n \in 1..Len(SortedStructuralFiles) |-> HashPart(proj, SortedStructuralFiles[n])]

compute_structural_hash(proj) ==
    LET combined == JoinLines(HashParts(proj)) \o "\n"
    IN  "sha256:" \o sha256_hexdigest(combined)

(***************************************************************************)
(* Cache read.                                                             *)
(***************************************************************************)
NoCache == [found |-> FALSE, d |-> <<>>]

\* read_cache with "domains" tested for presence instead of truthiness
read_cache_key_only(file) ==
    IF file.kind = "absent" THEN NoCache
    ELSE IF file.kind = "unreadable" THEN NoCache
    ELSE LET data == yaml_safe_load(file.content)
         IN  IF data.t = "dict" /\ HasKey(data.d, "domains")
             THEN [found |-> TRUE, d |-> data.d]
             ELSE NoCache

read_cache(file) ==
    IF file.kind = "absent" THEN NoCache
    ELSE IF file.kind = "unreadable" THEN NoCache
    ELSE LET data == yaml_safe_load(file.content)
         IN  IF data.t = "dict" /\ Truthy(DictGet(data.d, "domains"))
             THEN [found |-> TRUE, d |-> data.d]
             ELSE NoCache

(***************************************************************************)
(* Paths that git prints. A path is a sequence of tokens; "/" and "." are  *)
(* tokens of their own and no other token holds either character.          *)
(***************************************************************************)
RECURSIVE JoinTokens(_)
JoinTokens(f) == IF f = <<>> THEN "" ELSE Head(f) \o JoinTokens(Tail(f))

\* str.rfind: the last position of tok in f, 0 when there is none
LastIndex(f, tok) ==
    IF \E n \in 1..Len(f) : f[n] = tok
    THEN CHOOSE n \in 1..Len(f) : f[n] = tok /\ \A m \in (n+1)..Len(f) : f[m] # tok
    ELSE 0

\* the whole path taken for its basename
os_path_basename_whole_path(f) == f

os_path_basename(f) == SubSeq(f, LastIndex(f, "/") + 1, Len(f))

\* the second component of os.path.splitext(f): leading dots of the basename
\* do not start an extension
os_path_splitext_ext(f) ==
    LET sep == LastIndex(f, "/")
        dot == LastIndex(f, ".")
    IN  IF dot > sep /\ \E n \in (sep+1)..(dot-1) : f[n] # "."
        THEN SubSeq(f, dot, Len(f))
        ELSE <<>>

(***************************************************************************)
(* The repository and the three git invocations of tier 2.                 *)
(***************************************************************************)
NoRepo == [exists |-> FALSE, shallow |-> FALSE, commits |-> {}]
Repo(shallow, commits) == [exists |-> TRUE, shallow |-> shallow, commits |-> commits]

Commit(at, status, path, to) == [at |-> at, status |-> status, path |-> path, to |-> to]

\* how a subprocess.run call ends: exit 0, another exit code, or an exception
\* (TimeoutExpired, FileNotFoundError)
ToolAnswers == {"ok", "nonzero", "raised"}

\* git rev-parse --is-shallow-repository: stdout when it exits 0, else how it failed
ShallowAnswers(rp) == {IF rp.shallow THEN "true" ELSE "false", "nonzero", "raised"}

\* git log --since=<since> --diff-filter=ACDM --name-only --format= HEAD
git_log_names(rp, since) ==
    {c.path : c \in {x \in rp.commits : x.status \in {"A", "C", "D", "M"} /\ x.at >= since}}

\* git log --since=<since> --diff-filter=R --name-status --format= HEAD, each
\* line split at its tabs
git_log_renames(rp, since) ==
    {<<"R100", c.path, c.to>> : c \in {x \in rp.commits : x.status = "R" /\ x.at >= since}}

\* what a tier 2 run got from git
GitNone == [shallow |-> "uncalled", log |-> "uncalled", rename |-> "uncalled",
            changed |-> {}, renamed |-> {}]

(***************************************************************************)
(* Staleness detection.                                                    *)
(***************************************************************************)
\* _parse_iso_datetime(s): the instant, or None
_parse_iso_datetime(v) ==
    IF v.s = "" THEN [ok |-> FALSE, at |-> 0]
    ELSE IF v.s = "iso8601" THEN [ok |-> TRUE, at |-> v.i]
    ELSE [ok |-> FALSE, at |-> 0]

\* what a tier returns: a verdict, or None
TierNone == [decided |-> FALSE, code |-> 0]
TierVerdict(code) == [decided |-> TRUE, code |-> code]

\* tier 1 deciding on whatever value the structural_hash key holds
_check_stale_tier1_any_value(proj, cache) ==
    LET cached_hash == DictGet(cache, "structural_hash")
    IN  IF cached_hash.t = "null" THEN TierNone
        ELSE IF cached_hash.t = "str" /\ compute_structural_hash(proj) = cached_hash.s
             THEN TierVerdict(FRESH)
             ELSE TierVerdict(STALE)

_check_stale_tier1(proj, cache) ==
    LET cached_hash == DictGet(cache, "structural_hash")
    IN  IF ~Truthy(cached_hash) \/ cached_hash.t # "str" THEN TierNone
        ELSE IF compute_structural_hash(proj) = cached_hash.s THEN TierVerdict(FRESH)
        ELSE TierVerdict(STALE)

\* the triggers of the changed files: lines 255-262
ChangeTriggers(changed_files) ==
    {[kind |-> "structural file", path |-> f] :
        f \in {x \in changed_files : JoinTokens(os_path_basename(x)) \in STRUCTURAL_FILES}}
    \cup
    {[kind |-> "structural extension", path |-> f] :
        f \in {x \in changed_files : JoinTokens(os_path_splitext_ext(x)) \in STRUCTURAL_EXTENSIONS}}

\* the triggers of the rename lines: lines 272-280
RenameTriggers(lines) ==
    {[kind |-> "structural rename", path |-> parts[2]] :
        parts \in {x \in lines :
            /\ Len(x) >= 3
            /\ (JoinTokens(os_path_basename(x[2])) \in STRUCTURAL_FILES)
                 # (JoinTokens(os_path_basename(x[3])) \in STRUCTURAL_FILES)}}

Tier2Ret(tier, git) == [decided |-> tier.decided, code |-> tier.code, git |-> git]

\* tier 2 from the rename query on: lines 264-288
Tier2Renames(rp, since, git, triggers) ==
    { LET lines == IF rn = "ok" THEN git_log_renames(rp, since) ELSE {}
          all_triggers == triggers \cup RenameTriggers(lines)
      IN  Tier2Ret(IF all_triggers # {} THEN TierVerdict(STALE) ELSE TierVerdict(FRESH),
                   [git EXCEPT !.rename = rn, !.renamed = lines])
      : rn \in ToolAnswers }

\* tier 2 from the change-log query on: lines 239-288
Tier2Log(rp, since, git) ==
    UNION { IF lg # "ok"
            THEN {Tier2Ret(TierNone, [git EXCEPT !.log = lg])}
            ELSE LET changed_files == git_log_names(rp, since)
                 IN  Tier2Renames(rp, since,
                                  [git EXCEPT !.log = lg, !.changed = changed_files],
                                  ChangeTriggers(changed_files))
            : lg \in ToolAnswers }

\* _check_stale_tier2: every return value the git invocations allow
_check_stale_tier2(cache, rp) ==
    IF ~rp.exists THEN {Tier2Ret(TierNone, GitNone)}
    ELSE UNION {
        LET git == [GitNone EXCEPT !.shallow = sh]
            parsed == _parse_iso_datetime(PyStr(DictGetDefault(cache, "detected_at", YStr(""))))
        IN  IF sh = "true" THEN {Tier2Ret(TierNone, git)}
            ELSE IF ~parsed.ok THEN {Tier2Ret(TierVerdict(STALE), git)}
            ELSE Tier2Log(rp, parsed.at, git)
        : sh \in ShallowAnswers(rp) }

\* tier 3 answering FRESH when detected_at cannot be parsed
_check_stale_tier3_unparsed_fresh(proj, cache) ==
    LET parsed == _parse_iso_datetime(PyStr(DictGetDefault(cache, "detected_at", YStr(""))))
    IN  IF ~parsed.ok THEN FRESH
        ELSE IF \E name \in STRUCTURAL_FILES : is_file(proj, name) /\ proj[name].mtime > parsed.at
             THEN STALE
             ELSE FRESH

\* tier 3 looking at every file of the project root
_check_stale_tier3_any_file(proj, cache) ==
    LET parsed == _parse_iso_datetime(PyStr(DictGetDefault(cache, "detected_at", YStr(""))))
    IN  IF ~parsed.ok THEN STALE
        ELSE IF \E name \in DOMAIN proj : is_file(proj, name) /\ proj[name].mtime > parsed.at
             THEN STALE
             ELSE FRESH

_check_stale_tier3(proj, cache) ==
    LET parsed == _parse_iso_datetime(PyStr(DictGetDefault(cache, "detected_at", YStr(""))))
    IN  IF ~parsed.ok THEN STALE
        ELSE IF \E name \in STRUCTURAL_FILES : is_file(proj, name) /\ proj[name].mtime > parsed.at
             THEN STALE
             ELSE FRESH

\* what one check_stale call returns, the step that decided, and what it read
CheckResult(code, tier, consulted, git) ==
    [code |-> code, tier |-> tier, consulted |-> consulted, git |-> git]

\* tiers 2 and 3 of check_stale: lines 357-372
CheckStaleTiers23(proj, rp, cache, seen) ==
    { IF t2.decided
      THEN CheckResult(t2.code, "tier2", seen \cup {"git"}, t2.git)
      ELSE CheckResult(_check_stale_tier3(proj, cache), "tier3",
                       seen \cup (IF t2.git.shallow = "uncalled" THEN {} ELSE {"git"})
                            \cup {"mtime"},
                       t2.git)
      : t2 \in _check_stale_tier2(cache, rp) }

\* check_stale whose --dry-run trace of tier 1 ends the check: without a
\* stored hash to compare, the traced check answers STALE
check_stale_trace_decides(proj, rp, file, dry_run) ==
    LET cache == read_cache(file)
        version == DictGet(cache.d, "cache_version")
    IN  IF ~cache.found THEN {CheckResult(NO_CACHE, "read", {}, GitNone)}
        ELSE IF Truthy(DictGet(cache.d, "override"))
             THEN {CheckResult(FRESH, "override", {}, GitNone)}
        ELSE IF version.t = "null" \/ (version.t \in {"int", "bool"} /\ version.i # CACHE_VERSION)
             THEN {CheckResult(STALE, "version", {}, GitNone)}
        ELSE LET tier1 == _check_stale_tier1(proj, cache.d)
             IN  IF tier1.decided
                 THEN {CheckResult(tier1.code, "tier1", {"hash"}, GitNone)}
                 ELSE IF dry_run THEN {CheckResult(STALE, "tier1", {"hash"}, GitNone)}
                 ELSE CheckStaleTiers23(proj, rp, cache.d, {})

\* check_stale with the version test placed before the override test
check_stale_version_first(proj, rp, file, dry_run) ==
    LET cache == read_cache(file)
        version == DictGet(cache.d, "cache_version")
    IN  IF ~cache.found THEN {CheckResult(NO_CACHE, "read", {}, GitNone)}
        ELSE IF version.t = "null" \/ (version.t \in {"int", "bool"} /\ version.i # CACHE_VERSION)
             THEN {CheckResult(STALE, "version", {}, GitNone)}
        ELSE IF Truthy(DictGet(cache.d, "override"))
             THEN {CheckResult(FRESH, "override", {}, GitNone)}
        ELSE LET tier1 == _check_stale_tier1(proj, cache.d)
             IN  IF tier1.decided
                 THEN {CheckResult(tier1.code, "tier1", {"hash"}, GitNone)}
                 ELSE CheckStaleTiers23(proj, rp, cache.d, IF dry_run THEN {"hash"} ELSE {})

\* check_stale: every return value the git invocations allow
check_stale(proj, rp, file, dry_run) ==
    LET cache == read_cache(file)
        version == DictGet(cache.d, "cache_version")
    IN  IF ~cache.found THEN {CheckResult(NO_CACHE, "read", {}, GitNone)}
        ELSE IF Truthy(DictGet(cache.d, "override"))
             THEN {CheckResult(FRESH, "override", {}, GitNone)}
        ELSE IF version.t = "null" \/ (version.t \in {"int", "bool"} /\ version.i # CACHE_VERSION)
             THEN {CheckResult(STALE, "version", {}, GitNone)}
        ELSE LET tier1 == _check_stale_tier1(proj, cache.d)
             IN  IF tier1.decided
                 THEN {CheckResult(tier1.code, "tier1", {"hash"}, GitNone)}
                 ELSE CheckStaleTiers23(proj, rp, cache.d, IF dry_run THEN {"hash"} ELSE {})

(***************************************************************************)
(* The inputs of the model.                                                *)
(***************************************************************************)
Contents == {"v1", "v2"}

\* a structural file of the project root: absent, or with some content and mtime
StructuralEntries == {AbsentEntry} \cup {FileEntry(c, m) : c \in Contents, m \in Times}

\* project roots: two structural names, and a source file newer than everything
Projects ==
    { [name \in {"Makefile", "package.json", "main.py"} |->
          CASE name = "Makefile"     -> mk
            [] name = "package.json" -> pk
            [] name = "main.py"      -> FileEntry("v1", MaxTime)]
      : mk \in StructuralEntries, pk \in StructuralEntries }

\* project roots in which only package.json varies
FewProjects ==
    { p \in Projects : p["Makefile"] = AbsentEntry /\ p["package.json"].content # "v2" }

\* paths of a commit
PathRootStructural   == <<"package", ".", "json">>
PathNestedStructural == <<"sub", "/", "Makefile">>
PathExtension        == <<"scenes", "/", "player", ".", "gd">>
PathPlain            == <<"src", "/", "main", ".", "py">>
PathDotFile          == <<"sub", ".", "d", "/", ".", "gd">>

Commits ==
    { Commit(at, ch[1], ch[2], ch[3]) :
        at \in Times,
        ch \in { <<"M", PathRootStructural, <<>>>>,
                 <<"A", PathNestedStructural, <<>>>>,
                 <<"C", PathExtension, <<>>>>,
                 <<"D", PathPlain, <<>>>>,
                 <<"M", PathDotFile, <<>>>>,
                 <<"R", PathRootStructural, <<"package", ".", "json", ".", "bak">>>>,
                 <<"R", <<"build", "/", "Makefile", ".", "in">>, <<"build", "/", "Makefile">>>>,
                 <<"R", <<"Makefile">>, PathNestedStructural>>,
                 <<"R", PathPlain, <<"src", "/", "app", ".", "py">>>> } }

\* the histories of at most n commits
RECURSIVE HistoriesUpTo(_)
HistoriesUpTo(n) ==
    IF n = 0 THEN {{}}
    ELSE LET shorter == HistoriesUpTo(n - 1)
         IN  shorter \cup {h \cup {c} : h \in shorter, c \in Commits}

Histories == HistoriesUpTo(MaxCommits)

Repos == {NoRepo} \cup {Repo(sh, h) : sh \in BOOLEAN, h \in Histories}

FewRepos ==
    { NoRepo, Repo(FALSE, {}), Repo(TRUE, {}),
      Repo(FALSE, {Commit(MaxTime, "M", PathRootStructural, <<>>)}) }

\* one detection result, as detect() builds it
OneDomain == <<[name |-> "web-api", confidence |-> 30, primary |-> TRUE]>>

\* the lines of a cache document: a key with value "omit" is left out
OmitKey == [t |-> "omit", i |-> 0, s |-> "", l |-> <<>>]

KeyLine(k, v) == IF v = OmitKey THEN <<>> ELSE <<Line(k, v)>>

CacheDoc(version, domains, detected_at, structural_hash, override) ==
    <<HeaderLine>> \o KeyLine("cache_version", version) \o KeyLine("domains", domains)
        \o KeyLine("detected_at", detected_at) \o KeyLine("structural_hash", structural_hash)
        \o KeyLine("override", override)

VersionValues ==
    { OmitKey, YInt(CACHE_VERSION - 1), YInt(CACHE_VERSION), YInt(CACHE_VERSION + 1),
      YFloat(CACHE_VERSION + 1) }
DomainsValues == { OmitKey, YList(<<>>), YList(OneDomain) }
DetectedAtValues == { OmitKey, YStr("yesterday") } \cup { YIso(n) : n \in Times }
OverrideValues == { OmitKey, YBool(FALSE), YBool(TRUE) }

\* stored hashes: none, a number, or the hash of a project with one Makefile content
HashValues ==
    { OmitKey, YInt(7) }
    \cup { YStr(compute_structural_hash(p)) :
             p \in { q \in Projects : q["Makefile"] = FileEntry("v1", 0)
                                      /\ q["package.json"] = AbsentEntry } }
    \cup { YStr(compute_structural_hash(p)) :
             p \in { q \in Projects : q["Makefile"] = AbsentEntry
                                      /\ q["package.json"] = FileEntry("v1", 0) } }

CacheFiles ==
    { NoFile, UnreadableFile, File(<<HeaderLine, GarbageLine>>), File(<<HeaderLine, ScalarLine>>) }
    \cup { File(CacheDoc(v, d, at, h, o)) :
             v \in VersionValues, d \in DomainsValues, at \in DetectedAtValues,
             h \in HashValues, o \in OverrideValues }

\* cache files that pass read_cache, the override test and the version test
CurrentCacheFiles ==
    { File(CacheDoc(YInt(CACHE_VERSION), YList(OneDomain), at, h, OmitKey)) :
        at \in DetectedAtValues, h \in HashValues }

Idle == [phase |-> "idle", code |-> 0, tier |-> "", consulted |-> {}, git |-> GitNone]

Init ==
    /\ \/ project \in Projects /\ repo \in FewRepos /\ cacheFile \in CacheFiles
       \/ project \in FewProjects /\ repo \in Repos /\ cacheFile \in CurrentCacheFiles
    /\ run = Idle
    /\ tmpFiles = <<>>
    /\ wpc = <<>>
    /\ rpc = <<>>
    /\ robs = <<>>
    /\ wargs = <<>>
    /\ catalogue = <<>>
    /\ proc = <<>>
    /\ prev = <<>>
    /\ out = <<>>

\* one run of --check-stale
CheckStale ==
    /\ run.phase = "idle"
    /\ \E dry_run \in BOOLEAN :
         \E r \in check_stale(project, repo, cacheFile, dry_run) :
            run' = [phase |-> "done", code |-> r.code, tier |-> r.tier,
                    consulted |-> r.consulted, git |-> r.git]
    /\ UNCHANGED <<project, repo, cacheFile, tmpFiles, wpc, rpc, robs, wargs, catalogue, proc, prev, out>>

Next == CheckStale

Spec == Init /\ [][Next]_vars

(***************************************************************************)
(* Properties of the staleness check. They read the cache document, the    *)
(* project and the repository as they are stored, not as check_stale       *)
(* parsed them.                                                            *)
(***************************************************************************)
Done == run.phase = "done"

Doc == DataLines(cacheFile.content)
Field(k) == DictGet(Doc, k)
FieldPresent(k) == HasKey(Doc, k)
DocKeys == {Doc[n].k : n \in 1..Len(Doc)}

\* the cache file holds a YAML mapping
IsMapping ==
    cacheFile.kind = "file" /\ Doc # <<>> /\ "!garbage" \notin DocKeys /\ "!scalar" \notin DocKeys

\* the artifact read_cache hands on: a mapping whose domains value is truthy
Readable == IsMapping /\ Truthy(Field("domains"))

\* the check went past the override and version tests
PassedGates == run.tier \in {"tier1", "tier2", "tier3"}

\* the stored detected_at is an ISO-8601 string
ValidDetectedAt == FieldPresent("detected_at") /\ Field("detected_at").s = "iso8601"
DetectedAt == Field("detected_at").i

\* a structural file of the project root is newer than detected_at
NewerStructuralFile ==
    \E name \in {"Makefile", "package.json"} :
        project[name].kind = "file" /\ project[name].mtime > DetectedAt

\* C1: a readable artifact with override true is FRESH, whatever its
\* cache_version, structural_hash and detected_at and whatever the project.
C1_OverrideIsFresh ==
    (Done /\ Readable /\ Field("override") = YBool(TRUE)) => run.code = FRESH

C1_Witness ==
    /\ Done /\ Readable /\ Field("override") = YBool(TRUE)
    /\ Field("cache_version") = YInt(CACHE_VERSION + 1)
    /\ Field("structural_hash").t = "str"
    /\ Field("structural_hash").s # compute_structural_hash(project)
    /\ ~ValidDetectedAt
    /\ project["Makefile"].kind = "file" /\ project["Makefile"].mtime = MaxTime
    /\ run.code = FRESH

\* C2 (as claimed): a readable artifact without override whose cache_version is
\* missing or is anything but the current schema version is STALE, decided
\* without reading the hash, the history or the modification times.
C2_AnyOtherVersionIsStale ==
    (Done /\ Readable /\ ~Truthy(Field("override"))
          /\ Field("cache_version") # YInt(CACHE_VERSION))
        => (run.code = STALE /\ run.consulted = {})

\* the stored structural_hash is a non-empty string
UsableStoredHash == Field("structural_hash").t = "str" /\ Field("structural_hash").s # ""
HashMatches == Field("structural_hash").s = compute_structural_hash(project)

C4_NoCacheIffNoDomainsKey ==
    Done => (run.code = NO_CACHE <=> (~IsMapping \/ ~FieldPresent("domains")))

\* C4 (amended): NO_CACHE exactly when the file is absent, cannot be read or
\* parsed, is not a mapping, or has no domains key or an empty (falsy) domains
\* value; it is decided before override, version and every tier.
C4_NoCacheIffNotReadable ==
    Done => /\ run.code = NO_CACHE <=> ~Readable
            /\ run.code = NO_CACHE => (run.tier = "read" /\ run.consulted = {})

C4_Witness ==
    /\ Done /\ IsMapping /\ Field("domains") = YList(<<>>)
    /\ Field("override") = YBool(TRUE)
    /\ run.code = NO_CACHE

(***************************************************************************)
(* Properties of tiers 2 and 3. The paths of the model's commits are       *)
(* classified here by hand, not by the operators tier 2 uses.              *)
(***************************************************************************)
\* paths whose basename is a structural filename
StructuralNamePaths ==
    { PathRootStructural, PathNestedStructural, <<"Makefile">>, <<"build", "/", "Makefile">> }

\* paths whose basename is a structural filename or whose extension is a
\* stack-marker extension
StructuralPaths == StructuralNamePaths \cup { PathExtension }

CommitsSince == {c \in repo.commits : c.at >= DetectedAt}

StructuralChangeSince ==
    \E c \in CommitsSince : c.status \in {"A", "C", "D", "M"} /\ c.path \in StructuralPaths

CrossingRename(c) ==
    c.status = "R" /\ ((c.path \in StructuralNamePaths) # (c.to \in StructuralNamePaths))

\* tier 2 gave the verdict after a change-log query that succeeded
Tier2Decided == Done /\ run.tier = "tier2" /\ run.git.log = "ok"

\* one of the git invocations that were made failed, timed out or found no git
InvocationFailed ==
    \/ run.git.shallow \in {"nonzero", "raised"}
    \/ run.git.log \in {"nonzero", "raised"}
    \/ run.git.rename \in {"nonzero", "raised"}

\* the verdict of tier 3, from the stored detected_at and the mtimes
Tier3Verdict == IF ValidDetectedAt /\ ~NewerStructuralFile THEN FRESH ELSE STALE

\* C5 (as claimed): when one of tier 2's git invocations fails, times out or
\* finds no executable, the check returns the verdict tier 3 computes, and
\* tier 2 does not answer FRESH.
C5_FailedInvocationDefersToTier3 ==
    (Done /\ InvocationFailed)
        => /\ run.code = Tier3Verdict
           /\ ~(run.tier = "tier2" /\ run.code = FRESH)

\* C6: when tier 2 decides after a successful change-log query, the verdict
\* is STALE if a path added, copied, deleted or modified since detected_at has
\* a structural basename (at any depth) or a stack-marker extension, and FRESH
\* if no such path was touched and no rename crosses the structural boundary.
C6_Tier2ChangeDetection ==
    Tier2Decided =>
        /\ StructuralChangeSince => run.code = STALE
        /\ (~StructuralChangeSince /\ ~\E c \in CommitsSince : CrossingRename(c))
               => run.code = FRESH

C6_Witness ==
    /\ Tier2Decided
    /\ \E c \in CommitsSince : c.status = "A" /\ c.path = PathNestedStructural
    /\ run.code = STALE

\* C7 (as claimed): when tier 2 decides, a rename recorded since detected_at
\* makes the verdict STALE iff exactly one of its two basenames is structural.
C7_RenameStaleIffCrossing ==
    (Tier2Decided /\ CommitsSince # {} /\ \A c \in CommitsSince : c.status = "R")
        => (run.code = STALE <=> \E c \in CommitsSince : CrossingRename(c))

\* C8: when tier 3 decides with a parseable detected_at, the verdict is STALE
\* iff a structural file of the project root has an mtime strictly newer than
\* detected_at, and FRESH otherwise; other files do not count.
C8_Tier3Verdict ==
    (Done /\ run.tier = "tier3" /\ ValidDetectedAt)
        => /\ run.code = STALE <=> NewerStructuralFile
           /\ run.code # STALE => run.code = FRESH

C8_Witness ==
    /\ Done /\ run.tier = "tier3" /\ ValidDetectedAt
    /\ ~repo.exists
    /\ project["Makefile"].kind = "file" /\ project["Makefile"].mtime > DetectedAt
    /\ run.code = STALE

\* C9: past the override and version tests and without a usable stored hash,
\* a missing or unparseable detected_at gives STALE on every path through
\* tiers 2 and 3.
C9_NoTimestampIsStale ==
    (Done /\ run.tier \in {"tier2", "tier3"} /\ ~ValidDetectedAt) => run.code = STALE

C9_Witness ==
    /\ Done /\ run.tier = "tier3" /\ ~ValidDetectedAt
    /\ repo.exists /\ repo.shallow /\ run.git.shallow = "true"
    /\ Field("detected_at") = YStr("yesterday")
    /\ run.code = STALE

(***************************************************************************)
(* Cache write, step by step, with concurrent readers.                     *)
(***************************************************************************)
Writers == 1..NumWriters
Readers == 1..NumReaders

\* the tag yaml's implicit resolver gives the text of a string when it is
\* written as a plain scalar
ImplicitTag(v) == IF v.s = "iso8601" THEN "timestamp" ELSE "str"

\* a dump that writes every string as a plain scalar
yaml_dump_plain(v) == [style |-> "plain", v |-> v]

\* yaml.dump of a value: a string that would be read back as another type is
\* written in quotes
yaml_dump(v) ==
    IF v.t = "str" /\ ImplicitTag(v) # "str"
    THEN [style |-> "quoted", v |-> v]
    ELSE [style |-> "plain", v |-> v]

\* yaml.safe_load of a dumped value: a plain scalar is resolved by its text
yaml_load(node) ==
    IF node.style = "plain" /\ node.v.t = "str" /\ ImplicitTag(node.v) = "timestamp"
    THEN YTimestamp(node.v.i)
    ELSE node.v

\* a line of the dumped payload, kept as the value safe_load resolves it to
Emit(k, v) == Line(k, yaml_load(yaml_dump(v)))

\* a payload that leaves the structural hash out
write_cache_content_without_hash(results, structural_hash, now) ==
    <<HeaderLine, Emit("cache_version", YInt(CACHE_VERSION)), Emit("domains", YList(results)),
      Emit("detected_at", YIso(now))>>

\* the bytes write_cache builds: lines 142-150 ("" stands for structural_hash None)
write_cache_content(results, structural_hash, now) ==
    <<HeaderLine, Emit("cache_version", YInt(CACHE_VERSION)), Emit("domains", YList(results)),
      Emit("detected_at", YIso(now))>>
    \o (IF structural_hash = "" THEN <<>> ELSE <<Emit("structural_hash", YStr(structural_hash))>>)

\* the project the writers detected on, and what each writer passes to write_cache
WriterProject ==
    [name \in {"Makefile", "package.json", "main.py"} |->
        CASE name = "Makefile"     -> FileEntry("v1", 0)
          [] name = "package.json" -> AbsentEntry
          [] name = "main.py"      -> FileEntry("v1", MaxTime)]
WriterHash == compute_structural_hash(WriterProject)
WriterNames == <<"web-api", "game-simulation", "ml-pipeline", "cli-tool">>
WriterResults(w) == <<[name |-> WriterNames[w], confidence |-> 30, primary |-> TRUE]>>

\* the arguments of one write_cache call: results, structural_hash, the instant
\* datetime.now() returns; the step that raised ("" while none has) and how the
\* os.unlink of the except clause ended ("" while it was not called)
WriteArgs(results, structural_hash, now) ==
    [results |-> results, structural_hash |-> structural_hash, now |-> now,
     failed |-> "", unlink |-> ""]

\* the bytes writer w hands to os.write
WriterDoc(w) ==
    write_cache_content(wargs[w].results, wargs[w].structural_hash, wargs[w].now)

\* the artifact at cache_path before any of the writers ran
PrevDoc ==
    write_cache_content(<<[name |-> "embedded", confidence |-> 55, primary |-> TRUE]>>,
                        WriterHash, 0)

InitCache ==
    /\ project = WriterProject
    /\ repo = NoRepo
    /\ run = Idle
    /\ cacheFile \in {NoFile, File(PrevDoc)}
    /\ tmpFiles = [w \in Writers |-> NoFile]
    /\ wpc = [w \in Writers |-> "start"]
    /\ rpc = [r \in Readers |-> "idle"]
    /\ robs = [r \in Readers |-> NoFile]
    /\ wargs = [w \in Writers |-> WriteArgs(WriterResults(w), WriterHash, MaxTime)]
    /\ catalogue = <<>>
    /\ proc = <<>>
    /\ prev = <<>>
    /\ out = <<>>

\* tempfile.mkstemp(dir=path.parent, suffix=".tmp"): a new, empty file of its own
Mkstemp(w) ==
    /\ wpc[w] = "start"
    /\ tmpFiles' = [tmpFiles EXCEPT ![w] = File(<<>>)]
    /\ wpc' = [wpc EXCEPT ![w] = "write"]
    /\ UNCHANGED <<project, repo, cacheFile, run, rpc, robs, wargs, catalogue, proc, prev, out>>

\* os.write going to cache_path itself, line by line
OsWriteInPlace(w) ==
    /\ wpc[w] = "write"
    /\ LET sofar == IF cacheFile.kind = "file" /\ tmpFiles[w].content # <<>>
                    THEN cacheFile.content ELSE <<>>
           n == Len(tmpFiles[w].content)
       IN  /\ cacheFile' = File(Append(sofar, WriterDoc(w)[n + 1]))
           /\ tmpFiles' = [tmpFiles EXCEPT ![w] = File(Append(tmpFiles[w].content, WriterDoc(w)[n + 1]))]
           /\ wpc' = [wpc EXCEPT ![w] = IF n + 1 = Len(WriterDoc(w)) THEN "fsync" ELSE "write"]
    /\ UNCHANGED <<project, repo, run, rpc, robs, wargs, catalogue, proc, prev, out>>

\* os.write(fd, content): the content reaches the temporary file line by line
OsWrite(w) ==
    /\ wpc[w] = "write"
    /\ LET n == Len(tmpFiles[w].content)
       IN  /\ tmpFiles' = [tmpFiles EXCEPT ![w] = File(Append(tmpFiles[w].content, WriterDoc(w)[n + 1]))]
           /\ wpc' = [wpc EXCEPT ![w] = IF n + 1 = Len(WriterDoc(w)) THEN "fsync" ELSE "write"]
    /\ UNCHANGED <<project, repo, cacheFile, run, rpc, robs, wargs, catalogue, proc, prev, out>>

\* os.fsync(fd)
OsFsync(w) ==
    /\ wpc[w] = "fsync"
    /\ wpc' = [wpc EXCEPT ![w] = "close"]
    /\ UNCHANGED <<project, repo, cacheFile, run, tmpFiles, rpc, robs, wargs, catalogue, proc, prev, out>>

\* os.close(fd)
OsClose(w) ==
    /\ wpc[w] = "close"
    /\ wpc' = [wpc EXCEPT ![w] = "rename"]
    /\ UNCHANGED <<project, repo, cacheFile, run, tmpFiles, rpc, robs, wargs, catalogue, proc, prev, out>>

\* os.rename(tmp_path, path): the temporary file replaces the cache file
OsRename(w) ==
    /\ wpc[w] = "rename"
    /\ cacheFile' = tmpFiles[w]
    /\ tmpFiles' = [tmpFiles EXCEPT ![w] = NoFile]
    /\ wpc' = [wpc EXCEPT ![w] = "done"]
    /\ UNCHANGED <<project, repo, run, rpc, robs, wargs, catalogue, proc, prev, out>>

\* tempfile.mkstemp raises (or path.parent.mkdir before it): no temporary file
\* exists and the exception leaves write_cache
MkstempRaises(w) ==
    /\ wpc[w] = "start"
    /\ wpc' = [wpc EXCEPT ![w] = "raised"]
    /\ wargs' = [wargs EXCEPT ![w].failed = "mkstemp"]
    /\ UNCHANGED <<project, repo, cacheFile, run, tmpFiles, rpc, robs, catalogue, proc, prev, out>>

\* os.write, os.fsync, os.close or os.rename raises: control goes to the
\* except clause; what was written so far stays in the temporary file
StepRaises(w) ==
    /\ wpc[w] \in {"write", "fsync", "close", "rename"}
    /\ wpc' = [wpc EXCEPT ![w] = "except"]
    /\ wargs' = [wargs EXCEPT ![w].failed = wpc[w]]
    /\ UNCHANGED <<project, repo, cacheFile, run, tmpFiles, rpc, robs, catalogue, proc, prev, out>>

\* the except clause without its os.unlink
HandlerSkipsUnlink(w) ==
    /\ wpc[w] = "except"
    /\ wpc' = [wpc EXCEPT ![w] = "raised"]
    /\ wargs' = [wargs EXCEPT ![w].unlink = "ok"]
    /\ UNCHANGED <<project, repo, cacheFile, run, tmpFiles, rpc, robs, catalogue, proc, prev, out>>

\* the except clause removing the cache file instead of the temporary file
HandlerUnlinksCache(w) ==
    /\ wpc[w] = "except"
    /\ cacheFile' = NoFile
    /\ wpc' = [wpc EXCEPT ![w] = "raised"]
    /\ wargs' = [wargs EXCEPT ![w].unlink = "ok"]
    /\ UNCHANGED <<project, repo, run, tmpFiles, rpc, robs, catalogue, proc, prev, out>>

\* the except clause: os.close(fd) (its OSError is ignored), os.unlink(tmp_path)
\* removes the temporary file, and the exception is raised again
Handler(w) ==
    /\ wpc[w] = "except"
    /\ tmpFiles' = [tmpFiles EXCEPT ![w] = NoFile]
    /\ wpc' = [wpc EXCEPT ![w] = "raised"]
    /\ wargs' = [wargs EXCEPT ![w].unlink = "ok"]
    /\ UNCHANGED <<project, repo, cacheFile, run, rpc, robs, catalogue, proc, prev, out>>

\* the except clause when os.unlink raises OSError too: the error is ignored,
\* the temporary file stays, and the first exception is raised again
HandlerUnlinkRaises(w) ==
    /\ wpc[w] = "except"
    /\ wpc' = [wpc EXCEPT ![w] = "raised"]
    /\ wargs' = [wargs EXCEPT ![w].unlink = "raised"]
    /\ UNCHANGED <<project, repo, cacheFile, run, tmpFiles, rpc, robs, catalogue, proc, prev, out>>

\* read_cache, first step: path.exists()
ReadExists(r) ==
    /\ rpc[r] \in {"idle", "done"}
    /\ IF cacheFile.kind = "absent"
       THEN rpc' = [rpc EXCEPT ![r] = "done"] /\ robs' = [robs EXCEPT ![r] = NoFile]
       ELSE rpc' = [rpc EXCEPT ![r] = "read"] /\ robs' = robs
    /\ UNCHANGED <<project, repo, cacheFile, run, tmpFiles, wpc, wargs, catalogue, proc, prev, out>>

\* read_cache, second step: path.read_text() of the file now at cache_path
ReadText(r) ==
    /\ rpc[r] = "read"
    /\ robs' = [robs EXCEPT ![r] = cacheFile]
    /\ rpc' = [rpc EXCEPT ![r] = "done"]
    /\ UNCHANGED <<project, repo, cacheFile, run, tmpFiles, wpc, wargs, catalogue, proc, prev, out>>

NextCache ==
    \/ \E w \in Writers : Mkstemp(w)
    \/ \E w \in Writers : OsWrite(w)
    \/ \E w \in Writers : OsFsync(w)
    \/ \E w \in Writers : OsClose(w)
    \/ \E w \in Writers : OsRename(w)
    \/ \E r \in Readers : ReadExists(r)
    \/ \E r \in Readers : ReadText(r)

SpecCache == InitCache /\ [][NextCache]_vars

\* the complete artifacts a reader may find
CompleteFiles == {File(PrevDoc)} \cup {File(WriterDoc(w)) : w \in Writers}

\* C10: under every interleaving of write_cache and read_cache calls on one
\* path, a read observes no file, the complete previous artifact or the
\* complete artifact of one writer, and the file at cache_path is never a
\* partially written one.
C10_ReadsAreNeverTorn ==
    /\ cacheFile \in {NoFile} \cup CompleteFiles
    /\ \A r \in Readers : rpc[r] = "done" => robs[r] \in {NoFile} \cup CompleteFiles

C10_Witness ==
    \E r \in Readers : \E w1, w2 \in Writers :
        /\ rpc[r] = "done" /\ robs[r] = File(WriterDoc(w2))
        /\ wpc[w2] = "done"
        /\ w1 # w2 /\ wpc[w1] = "write"
        /\ tmpFiles[w1].content # <<>>

(***************************************************************************)
(* Signal gathering. Scores are fractions matches/len(signals); the model  *)
(* keeps them as whole numbers of 1/SCALE, and a confidence as a whole     *)
(* number of 1/(10*SCALE), so that the weighted sums are exact.            *)
(***************************************************************************)
SCALE == 6      \* every signal list of the model has 1, 2, 3 or 6 entries

W_DIR == 3          \* 0.3, in tenths
W_FILE == 2         \* 0.2
W_FRAMEWORK == 3    \* 0.3
W_KEYWORD == 2      \* 0.2

SOURCE_EXTENSIONS ==
    { ".py", ".go", ".rs", ".ts", ".js", ".java", ".kt", ".swift", ".c", ".cpp", ".h",
      ".gd", ".dart" }

\* matches / len(signals)
Fraction(matches, n) == (matches * SCALE) \div n

\* DomainSpec: a signal is a sequence of tokens ("/" and "*" are tokens of their own)
DomainSpec(profile, min_confidence, directories, files, frameworks, keywords) ==
    [profile |-> profile, min_confidence |-> min_confidence, directories |-> directories,
     files |-> files, frameworks |-> frameworks, keywords |-> keywords]

\* the names of the model's directory entries in sorted() order (code points)
NameOrder ==
    << ".venv", "Cargo.toml", "Dockerfile", "Makefile", "api", "app.ts", "go.mod", "main.py",
       "models", "notes.txt", "package.json", "player.gd", "pyproject.toml",
       "requirements.txt", "routes.py", "train.py" >>

\* Path.suffix of those names
Path_suffix(name) ==
    CASE name \in {"main.py", "routes.py", "train.py"} -> ".py"
      [] name = "app.ts" -> ".ts"
      [] name = "player.gd" -> ".gd"
      [] name \in {"Cargo.toml", "pyproject.toml"} -> ".toml"
      [] name \in {"package.json"} -> ".json"
      [] name \in {"notes.txt", "requirements.txt"} -> ".txt"
      [] name = "go.mod" -> ".mod"
      [] OTHER -> ""

\* name.startswith(".")
StartsWithDot(name) == name \in {".venv"}

\* the entries of a directory that iterdir() yields
Listing(dir) == {n \in DOMAIN dir : dir[n].kind # "absent"}

\* sorted(dir.iterdir()), as names
SortedListing(dir) == SelectSeq(NameOrder, LAMBDA n : n \in Listing(dir))

Count(S) == Cardinality(S)

gather_directories(proj, signals) ==
    IF signals = <<>> THEN 0
    ELSE LET existing == {n \in Listing(proj) : proj[n].kind = "dir"}
             hit(sig) ==
                 IF \E k \in 1..Len(sig) : sig[k] = "/"
                 THEN /\ Len(sig) = 3
                      /\ sig[1] \in existing
                      /\ sig[3] \in DOMAIN proj[sig[1]].children
                      /\ proj[sig[1]].children[sig[3]].kind = "dir"
                 ELSE sig[1] \in existing
         IN  Fraction(Count({k \in 1..Len(signals) : hit(signals[k])}), Len(signals))

\* fnmatch.fnmatch(f, sig) for the patterns "name" and "*.ext"
fnmatch(f, sig) ==
    IF sig[1] = "*" THEN Path_suffix(f) = sig[2] ELSE f = sig[1]

gather_files(proj, signals) ==
    IF signals = <<>> THEN 0
    ELSE LET root == {n \in Listing(proj) : proj[n].kind = "file"}
             open == {n \in Listing(proj) :
                         proj[n].kind = "dir" /\ ~StartsWithDot(n) /\ proj[n].readable}
             below == UNION {{c \in Listing(proj[n].children) : proj[n].children[c].kind = "file"}
                                : n \in open}
             filenames == root \cup below
         IN  Fraction(Count({k \in 1..Len(signals) : \E f \in filenames : fnmatch(f, signals[k])}),
                      Len(signals))

\* What the format's parser and the walk over its dependency sections get from
\* a manifest's bytes: an exception (malformed text, or a document of the wrong
\* shape), or dependency names.
ParseOk(names) == [raises |-> FALSE, names |-> names]
ParseRaises == [raises |-> TRUE, names |-> {}]

ManifestData(content) ==
    CASE content = "deps express"        -> ParseOk({"express"})
      [] content = "deps flask"          -> ParseOk({"flask"})
      [] content = "deps fast-api flask" -> ParseOk({"fast-api", "flask"})
      [] content = "deps bevy"           -> ParseOk({"bevy"})
      [] content = "deps gin"            -> ParseOk({"gin"})
      [] content = "no deps"             -> ParseOk({})
      [] content = "[1, 2]"              -> ParseRaises     \* parses, but is no mapping
      [] OTHER                           -> ParseRaises     \* does not parse

\* what a dependency parser hands back: a set of names, or an exception
Deps(names) == [raised |-> FALSE, deps |-> names]
DepsRaised == [raised |-> TRUE, deps |-> {}]

\* the body the five parsers share: exists(), read_text(), parse, collect;
\* every exception of the last three is caught
ParseManifest(proj, name) ==
    IF name \notin DOMAIN proj \/ proj[name].kind = "absent" THEN Deps({})
    ELSE IF proj[name].kind # "file" \/ ~proj[name].readable THEN Deps({})
    ELSE IF ManifestData(proj[name].content).raises THEN Deps({})
    ELSE Deps(ManifestData(proj[name].content).names)

\* a parser that lets the exception of a malformed manifest escape
ParseManifestUncaught(proj, name) ==
    IF name \notin DOMAIN proj \/ proj[name].kind = "absent" THEN Deps({})
    ELSE IF proj[name].kind # "file" \/ ~proj[name].readable THEN Deps({})
    ELSE IF ManifestData(proj[name].content).raises THEN DepsRaised
    ELSE Deps(ManifestData(proj[name].content).names)

_parse_package_json_deps(proj) == ParseManifest(proj, "package.json")
_parse_cargo_toml_deps(proj) == ParseManifest(proj, "Cargo.toml")
_parse_go_mod_deps(proj) == ParseManifest(proj, "go.mod")
\* a pyproject parser that lets its exception escape
_parse_pyproject_deps_uncaught(proj) == ParseManifestUncaught(proj, "pyproject.toml")
_parse_pyproject_deps(proj) == ParseManifest(proj, "pyproject.toml")
_parse_requirements_txt(proj) == ParseManifest(proj, "requirements.txt")

\* d.replace("-", "").replace("_", "")
Normalise(d) ==
    CASE d \in {"fast-api", "fast_api"} -> "fastapi"
      [] OTHER -> d

\* gather_frameworks: a score, or the exception of a parser
Score(n) == [raised |-> FALSE, score |-> n]
ScoreRaised == [raised |-> TRUE, score |-> 0]

gather_frameworks(proj, signals) ==
    IF signals = <<>> THEN Score(0)
    ELSE LET parsed == << _parse_package_json_deps(proj), _parse_cargo_toml_deps(proj),
                          _parse_go_mod_deps(proj), _parse_pyproject_deps(proj),
                          _parse_requirements_txt(proj) >>
             all_deps == UNION {parsed[k].deps : k \in 1..Len(parsed)}
             normalised == {Normalise(d) : d \in all_deps}
         IN  IF \E k \in 1..Len(parsed) : parsed[k].raised THEN ScoreRaised
             ELSE Score(Fraction(Count({k \in 1..Len(signals) :
                                           Normalise(signals[k]) \in normalised}),
                                 Len(signals)))

\* the keywords (lower case) that occur in a source file's text
TextWords(content) ==
    CASE content = "import flask; app.route" -> {"flask", "route"}
      [] content = "class player: velocity"  -> {"player", "velocity"}
      [] content = "def route(): pass"       -> {"route"}
      [] OTHER -> {}

\* kw.lower()
Lower(kw) ==
    CASE kw = "Route" -> "route"
      [] OTHER -> kw

KeywordLimit == 5

SourceFile(path, entry) == [path |-> path, entry |-> entry]

\* the inner loop of gather_keywords: lines 550-554
RECURSIVE TakeChildren(_, _, _, _, _)
TakeChildren(dir, children, names, acc, cap) ==
    IF names = <<>> THEN acc
    ELSE LET c == Head(names)
         IN  IF children[c].kind = "file" /\ Path_suffix(c) \in SOURCE_EXTENSIONS
             THEN LET more == Append(acc, SourceFile(<<dir, c>>, children[c]))
                  IN  IF Len(more) >= cap THEN more
                      ELSE TakeChildren(dir, children, Tail(names), more, cap)
             ELSE TakeChildren(dir, children, Tail(names), acc, cap)

\* the outer loop of gather_keywords: lines 545-558
RECURSIVE TakeRoot(_, _, _, _)
TakeRoot(proj, names, acc, cap) ==
    IF names = <<>> THEN acc
    ELSE LET n == Head(names)
             more ==
                 IF proj[n].kind = "file" /\ Path_suffix(n) \in SOURCE_EXTENSIONS
                 THEN Append(acc, SourceFile(<<n>>, proj[n]))
                 ELSE IF proj[n].kind = "dir" /\ ~StartsWithDot(n)
                      THEN IF proj[n].readable
                           THEN TakeChildren(n, proj[n].children,
                                             SortedListing(proj[n].children), acc, cap)
                           ELSE acc
                      ELSE acc
         IN  IF Len(more) >= cap THEN more ELSE TakeRoot(proj, Tail(names), more, cap)

\* the files gather_keywords reads: source_files[:limit]
SampledSources(proj, limit) ==
    LET source_files == TakeRoot(proj, SortedListing(proj), <<>>, limit * 3)
    IN  SubSeq(source_files, 1, IF Len(source_files) < limit THEN Len(source_files) ELSE limit)

gather_keywords(proj, signals, limit) ==
    IF signals = <<>> THEN 0
    ELSE LET source_files == SampledSources(proj, limit)
             combined_lower ==
                 UNION {TextWords(source_files[k].entry.content) :
                           k \in {j \in 1..Len(source_files) : source_files[j].entry.readable}}
         IN  Fraction(Count({k \in 1..Len(signals) : Lower(signals[k]) \in combined_lower}),
                      Len(signals))

(***************************************************************************)
(* Scoring and detect().                                                   *)
(***************************************************************************)
score_domain(dir_score, file_score, fw_score, kw_score) ==
    dir_score * W_DIR + file_score * W_FILE + fw_score * W_FRAMEWORK + kw_score * W_KEYWORD

\* round(confidence, 2), in hundredths: a confidence is k/(10*SCALE), so that
\* 100*k/(10*SCALE) is never halfway between two whole numbers
round2(confidence) == (2 * 100 * confidence + 10 * SCALE) \div (2 * 10 * SCALE)

\* a pass of the loop that skips the keyword scan as soon as any directory,
\* file or framework signal was found
ScoredEagerShortcut(proj, spec, skip_keywords_threshold) ==
    LET d == gather_directories(proj, spec.directories)
        f == gather_files(proj, spec.files)
        fw == gather_frameworks(proj, spec.frameworks).score
        preliminary == d * W_DIR + f * W_FILE + fw * W_FRAMEWORK
        shortcut == skip_keywords_threshold /\ preliminary > 0
        kw == IF shortcut THEN 0 ELSE gather_keywords(proj, spec.keywords, KeywordLimit)
        confidence == IF shortcut THEN preliminary ELSE score_domain(d, f, fw, kw)
    IN  [profile |-> spec.profile, d |-> d, f |-> f, fw |-> fw, kw |-> kw,
         preliminary |-> preliminary, shortcut |-> shortcut, confidence |-> confidence,
         min_confidence |-> spec.min_confidence]

\* one pass of the loop of detect over a catalogue entry: the scores, the
\* confidence, and whether the keyword scan was skipped
Scored(proj, spec, skip_keywords_threshold) ==
    LET d == gather_directories(proj, spec.directories)
        f == gather_files(proj, spec.files)
        fw == gather_frameworks(proj, spec.frameworks).score
        preliminary == d * W_DIR + f * W_FILE + fw * W_FRAMEWORK
        shortcut == skip_keywords_threshold /\ preliminary >= spec.min_confidence
        kw == IF shortcut THEN 0 ELSE gather_keywords(proj, spec.keywords, KeywordLimit)
        confidence == IF shortcut THEN preliminary ELSE score_domain(d, f, fw, kw)
    IN  [profile |-> spec.profile, d |-> d, f |-> f, fw |-> fw, kw |-> kw,
         preliminary |-> preliminary, shortcut |-> shortcut, confidence |-> confidence,
         min_confidence |-> spec.min_confidence]

\* a result dict; primary FALSE stands for a dict without the "primary" key
Result(name, confidence, primary) == [name |-> name, confidence |-> confidence, primary |-> primary]

\* the results appended by the loop, in catalogue order, with the threshold
\* test turned into a strict one
RECURSIVE AppendedStrict(_, _, _)
AppendedStrict(proj, domains, skip) ==
    IF domains = <<>> THEN <<>>
    ELSE LET sc == Scored(proj, Head(domains), skip)
         IN  (IF sc.confidence > sc.min_confidence
              THEN <<Result(sc.profile, round2(sc.confidence), FALSE)>> ELSE <<>>)
             \o AppendedStrict(proj, Tail(domains), skip)

\* the results appended by the loop, in catalogue order: lines 599-617
RECURSIVE Appended(_, _, _)
Appended(proj, domains, skip) ==
    IF domains = <<>> THEN <<>>
    ELSE LET sc == Scored(proj, Head(domains), skip)
         IN  (IF sc.confidence >= sc.min_confidence
              THEN <<Result(sc.profile, round2(sc.confidence), FALSE)>> ELSE <<>>)
             \o Appended(proj, Tail(domains), skip)

\* a sort that puts a result before the earlier results of equal confidence
RECURSIVE SortDescUnstable(_)
SortDescUnstable(results) ==
    IF results = <<>> THEN <<>>
    ELSE LET last == results[Len(results)]
             sorted == SortDescUnstable(SubSeq(results, 1, Len(results) - 1))
             before == SelectSeq(sorted, LAMBDA r : r.confidence > last.confidence)
             after == SelectSeq(sorted, LAMBDA r : r.confidence <= last.confidence)
         IN  before \o <<last>> \o after

\* results.sort(key=confidence, reverse=True): descending and stable
RECURSIVE SortDesc(_)
SortDesc(results) ==
    IF results = <<>> THEN <<>>
    ELSE LET last == results[Len(results)]
             sorted == SortDesc(SubSeq(results, 1, Len(results) - 1))
             before == SelectSeq(sorted, LAMBDA r : r.confidence >= last.confidence)
             after == SelectSeq(sorted, LAMBDA r : r.confidence < last.confidence)
         IN  before \o <<last>> \o after

\* results[0]["primary"] = True
MarkPrimary(results) ==
    IF results = <<>> THEN <<>>
    ELSE <<[results[1] EXCEPT !.primary = TRUE]>> \o Tail(results)

detect(proj, domains, skip_keywords_threshold) ==
    MarkPrimary(SortDesc(Appended(proj, domains, skip_keywords_threshold)))

(***************************************************************************)
(* Detection over bounded catalogues and project trees.                    *)
(***************************************************************************)
MaxDomains == 2     \* entries of a catalogue

\* min_confidence values, in 1/(10*SCALE): 0.0, 0.3, 0.5
MinConfidences == {0, 3 * SCALE, 5 * SCALE}

WebApiSpec(min_confidence) ==
    DomainSpec("web-api", min_confidence,
               << <<"api">>, <<"api", "/", "v1">> >>,
               << <<"Dockerfile">>, <<"*", ".py">> >>,
               << "flask", "fast_api" >>,
               << "Route", "flask" >>)

GameSpec(min_confidence) ==
    DomainSpec("game-simulation", min_confidence,
               << <<"models">> >>,
               << <<"*", ".gd">> >>,
               << "bevy" >>,
               << "player", "velocity", "sprite" >>)

CliSpec(min_confidence) ==
    DomainSpec("cli-tool", min_confidence, <<>>, <<>>, << "express", "gin", "click" >>, <<>>)

DomainPool ==
    {WebApiSpec(m) : m \in MinConfidences} \cup {GameSpec(m) : m \in MinConfidences}
        \cup {CliSpec(m) : m \in MinConfidences \ {0}}

RECURSIVE CataloguesUpTo(_)
CataloguesUpTo(n) ==
    IF n = 0 THEN {<<>>}
    ELSE LET shorter == CataloguesUpTo(n - 1)
         IN  shorter \cup {Append(c, d) : c \in {x \in shorter : Len(x) = n - 1}, d \in DomainPool}

\* the file at index_path
NoIndex == [kind |-> "absent", domains |-> <<>>]
MalformedIndex == [kind |-> "malformed", domains |-> <<>>]
Index(domains) == [kind |-> "file", domains |-> domains]

\* the entries of a project tree; an entry that is not there is AbsentEntry
ScanNames ==
    { ".venv", "Cargo.toml", "Dockerfile", "api", "go.mod", "main.py", "models",
      "package.json", "pyproject.toml", "requirements.txt" }

Tree(venv, cargo, docker, api, gomod, mainpy, models, pkg, pyproj, req) ==
    [n \in ScanNames |->
        CASE n = ".venv" -> venv
          [] n = "Cargo.toml" -> cargo
          [] n = "Dockerfile" -> docker
          [] n = "api" -> api
          [] n = "go.mod" -> gomod
          [] n = "main.py" -> mainpy
          [] n = "models" -> models
          [] n = "package.json" -> pkg
          [] n = "pyproject.toml" -> pyproj
          [] n = "requirements.txt" -> req]

Children1(name, entry) == [n \in {name} |-> entry]
Children2(n1, e1, n2, e2) == [n \in {n1, n2} |-> IF n = n1 THEN e1 ELSE e2]

VenvDir == DirEntry(Children1("train.py", FileEntry("class player: velocity", 0)), TRUE)
ApiDirs ==
    { AbsentEntry,
      DirEntry(Children1("routes.py", FileEntry("def route(): pass", 0)), TRUE),
      DirEntry(Children2("routes.py", FileEntry("def route(): pass", 0),
                         "v1", DirEntry(<<>>, TRUE)), TRUE),
      DirEntry(Children1("routes.py", FileEntry("def route(): pass", 0)), FALSE) }
ModelsDirs ==
    { AbsentEntry, DirEntry(Children1("player.gd", FileEntry("class player: velocity", 0)), TRUE) }
MainPys ==
    { AbsentEntry, FileEntry("import flask; app.route", 0),
      UnreadableEntry("import flask; app.route", 0) }

\* trees that differ in layout and sources; one manifest
LayoutTrees ==
    { Tree(VenvDir, AbsentEntry, docker, api, AbsentEntry, mainpy, models,
           AbsentEntry, AbsentEntry, req) :
        docker \in {AbsentEntry, FileEntry("v1", 0)}, api \in ApiDirs, mainpy \in MainPys,
        models \in ModelsDirs, req \in {AbsentEntry, FileEntry("deps flask", 0)} }

\* a manifest that is absent, well-formed, or broken in one of four ways
Manifests(good) ==
    { AbsentEntry, FileEntry(good, 0) }
BrokenManifests ==
    { FileEntry("{oops", 0), FileEntry("[1, 2]", 0), UnreadableEntry("deps gin", 0),
      DirEntry(<<>>, TRUE) }

\* trees that differ in their five manifests; at most one of them is broken
ManifestTrees ==
    { Tree(AbsentEntry, cargo, AbsentEntry, AbsentEntry, gomod, AbsentEntry, AbsentEntry,
           pkg, pyproj, req) :
        cargo \in Manifests("deps bevy"), gomod \in Manifests("deps gin"),
        pkg \in Manifests("deps express"), pyproj \in Manifests("deps fast-api flask"),
        req \in Manifests("deps flask") }
    \cup
    { [t EXCEPT ![n] = b] :
        t \in { Tree(AbsentEntry, FileEntry("deps bevy", 0), AbsentEntry, AbsentEntry,
                     FileEntry("deps gin", 0), AbsentEntry, AbsentEntry,
                     FileEntry("deps express", 0), FileEntry("deps fast-api flask", 0),
                     FileEntry("deps flask", 0)) },
        n \in {"Cargo.toml", "go.mod", "package.json", "pyproject.toml", "requirements.txt"},
        b \in BrokenManifests }

Trees == LayoutTrees \cup ManifestTrees

InitDetect ==
    /\ project \in Trees
    /\ catalogue \in {Index(c) : c \in CataloguesUpTo(MaxDomains)}
    /\ repo = NoRepo
    /\ cacheFile = NoFile
    /\ run = Idle
    /\ tmpFiles = <<>>
    /\ wpc = <<>>
    /\ rpc = <<>>
    /\ robs = <<>>
    /\ wargs = <<>>
    /\ proc = <<>>
    /\ prev = <<>>
    /\ out = <<>>

\* one call of detect(project, domains, skip_keywords_threshold): what it
\* returned, the scores it computed for each catalogue entry, and what its
\* calls of gather_frameworks gave
Detect(skip) ==
    /\ Len(out) < 2
    /\ \A k \in 1..Len(out) : out[k].skip # skip
    /\ out' = Append(out,
                [skip |-> skip,
                 scored |-> [k \in 1..Len(catalogue.domains) |->
                                Scored(project, catalogue.domains[k], skip)],
                 frameworks |-> [k \in 1..Len(catalogue.domains) |->
                                    gather_frameworks(project, catalogue.domains[k].frameworks)],
                 results |-> detect(project, catalogue.domains, skip)])
    /\ UNCHANGED <<project, repo, cacheFile, run, tmpFiles, wpc, rpc, robs, wargs, catalogue,
                   proc, prev>>

NextDetect == \E skip \in BOOLEAN : Detect(skip)

SpecDetect == InitDetect /\ [][NextDetect]_vars

(***************************************************************************)
(* main(): runs of the program, one after the other, on one project, one   *)
(* catalogue and one cache path. The write_cache call of a run is writer 1 *)
(* of the step-by-step cache write above.                                  *)
(***************************************************************************)
MaxRuns == 2        \* runs of main() in a behaviour

MainWriter == 1

\* project_root is not a directory: the path names a regular file
NotADirectory == [n \in {"."} |-> FileEntry("v1", 0)]

\* project.is_dir()
Path_is_dir(proj) == "." \notin DOMAIN proj

\* the flags of a run (--json only changes the output format and is left out)
Args(cs, dr, nc) == [check_stale |-> cs, dry_run |-> dr, no_cache |-> nc]

\* what a run printed on stdout: nothing, the domains, or the --dry-run trace
NoOutput == [kind |-> "none", domains |-> YNull]
DomainsOutput(domains) == [kind |-> "domains", domains |-> domains]
TraceOutput == [kind |-> "trace", domains |-> YNull]

NoCheck == CheckResult(0, "", {}, GitNone)

\* a run: where it is, its number, its flags, the file at cache_path when it
\* began, its exit status (-1 while it has none), its output, whether it called
\* detect(), the results of detect(), and what check_stale did
Proc(pc, n, args, before, exit, stdout, detected, results, check) ==
    [pc |-> pc, n |-> n, args |-> args, before |-> before, exit |-> exit, stdout |-> stdout,
     detected |-> detected, results |-> results, check |-> check]

IdleProc ==
    Proc("idle", 0, Args(FALSE, FALSE, FALSE), NoFile, -1, NoOutput, FALSE, <<>>, NoCheck)

\* load_index(index_path): the catalogue entries, or an exception
load_index(index) ==
    IF index.kind = "file" THEN [raised |-> FALSE, domains |-> index.domains]
    ELSE [raised |-> TRUE, domains |-> <<>>]

\* a cache test that serves the artifact only when its cache_version is current
CacheHitIfCurrent(args, cached) ==
    /\ ~args.no_cache
    /\ cached.found
    /\ DictGet(cached.d, "cache_version") = YInt(CACHE_VERSION)

\* the cache test of main(): lines 666-668
CacheHit(args, cached) == ~args.no_cache /\ cached.found

\* an override test that --no-cache switches off
OverrideHitNever(args, cached) == FALSE

\* the override test of main() under --no-cache: lines 677-679
OverrideHit(args, cached) ==
    args.no_cache /\ cached.found /\ Truthy(DictGet(cached.d, "override"))

\* main() from its first line to its return, or to its call of write_cache
MainStart(args) ==
    /\ proc.pc \in {"idle", "exited"}
    /\ proc.n < MaxRuns
    /\ args.dry_run => args.check_stale
    /\ prev' = proc
    /\ LET n == proc.n + 1
           exit(code, stdout, detected, results, check) ==
               /\ proc' = Proc("exited", n, args, cacheFile, code, stdout, detected, results, check)
               /\ UNCHANGED <<wargs, wpc, tmpFiles>>
           cached == read_cache(cacheFile)
           index == load_index(catalogue)
       IN  IF ~Path_is_dir(project)
           THEN exit(2, NoOutput, FALSE, <<>>, NoCheck)
           ELSE IF args.check_stale
           THEN \E r \in check_stale(project, repo, cacheFile, args.dry_run) :
                    exit(r.code, IF args.dry_run THEN TraceOutput ELSE NoOutput, FALSE, <<>>, r)
           ELSE IF catalogue.kind = "absent"
           THEN exit(2, NoOutput, FALSE, <<>>, NoCheck)
           ELSE IF CacheHit(args, cached)
           THEN exit(0, DomainsOutput(DictGet(cached.d, "domains")), FALSE, <<>>, NoCheck)
           ELSE IF OverrideHit(args, cached)
           THEN exit(0, DomainsOutput(DictGet(cached.d, "domains")), FALSE, <<>>, NoCheck)
           ELSE IF index.raised
           THEN exit(2, NoOutput, FALSE, <<>>, NoCheck)
           ELSE \E results \in {detect(project, index.domains, TRUE)} :
                IF results = <<>>
                THEN exit(1, NoOutput, TRUE, results, NoCheck)
                ELSE \E now \in Times :
                   /\ proc' = Proc("write_cache", n, args, cacheFile, -1, NoOutput, TRUE, results,
                                   NoCheck)
                   /\ wargs' = [wargs EXCEPT ![MainWriter] =
                                   WriteArgs(results, compute_structural_hash(project), now)]
                   /\ wpc' = [wpc EXCEPT ![MainWriter] = "start"]
                   /\ tmpFiles' = [tmpFiles EXCEPT ![MainWriter] = NoFile]
    /\ UNCHANGED <<project, repo, cacheFile, run, rpc, robs, catalogue, out>>

\* main() catching the exception of write_cache and going on
MainIgnoresRaise ==
    /\ proc.pc = "write_cache"
    /\ wpc[MainWriter] \in {"done", "raised"}
    /\ proc' = [proc EXCEPT !.pc = "exited", !.exit = 0,
                            !.stdout = DomainsOutput(YList(proc.results))]
    /\ UNCHANGED <<project, repo, cacheFile, run, tmpFiles, wpc, rpc, robs, wargs, catalogue,
                   prev, out>>

\* main() after write_cache: when it returned, the output is printed and the
\* run returns 0; when it raised, the handler of __main__ prints the error on
\* stderr and exits with status 2
MainReturns ==
    /\ proc.pc = "write_cache"
    /\ wpc[MainWriter] \in {"done", "raised"}
    /\ proc' = IF wpc[MainWriter] = "done"
               THEN [proc EXCEPT !.pc = "exited", !.exit = 0,
                                 !.stdout = DomainsOutput(YList(proc.results))]
               ELSE [proc EXCEPT !.pc = "exited", !.exit = 2]
    /\ UNCHANGED <<project, repo, cacheFile, run, tmpFiles, wpc, rpc, robs, wargs, catalogue,
                   prev, out>>

\* projects of the runs
EmptyTree ==
    Tree(AbsentEntry, AbsentEntry, AbsentEntry, AbsentEntry, AbsentEntry, AbsentEntry,
         AbsentEntry, AbsentEntry, AbsentEntry, AbsentEntry)
FlaskTree(mtime) ==
    [EmptyTree EXCEPT !["requirements.txt"] = FileEntry("deps fast-api flask", mtime),
                      !["main.py"] = FileEntry("import flask; app.route", mtime)]

RunProjects == {NotADirectory, EmptyTree} \cup {FlaskTree(m) : m \in Times}

RunCatalogues ==
    {NoIndex, MalformedIndex, Index(<<GameSpec(3 * SCALE), WebApiSpec(3 * SCALE)>>)}

RunRepos ==
    { NoRepo,
      Repo(FALSE, {Commit(MaxTime, "M", <<"requirements", ".", "txt">>, <<>>)}),
      Repo(FALSE, {Commit(MaxTime, "R", <<"requirements", ".", "txt">>,
                          <<"requirements", ".", "in">>)}) }

RunCacheFiles ==
    { NoFile, File(<<HeaderLine, GarbageLine>>),
      File(CacheDoc(YInt(CACHE_VERSION + 1), YList(OneDomain), YIso(0), OmitKey, YBool(TRUE))),
      File(CacheDoc(YInt(CACHE_VERSION), YList(OneDomain), YIso(0), OmitKey, OmitKey)),
      File(CacheDoc(YInt(CACHE_VERSION), YList(OneDomain), YIso(0),
                    YStr(compute_structural_hash(EmptyTree)), OmitKey)) }

InitRuns ==
    /\ project \in RunProjects
    /\ catalogue \in RunCatalogues
    /\ repo \in RunRepos
    /\ cacheFile \in RunCacheFiles
    /\ run = Idle
    /\ tmpFiles = [w \in {MainWriter} |-> NoFile]
    /\ wpc = [w \in {MainWriter} |-> "idle"]
    /\ wargs = [w \in {MainWriter} |-> WriteArgs(<<>>, "", 0)]
    /\ rpc = <<>>
    /\ robs = <<>>
    /\ proc = IdleProc
    /\ prev = IdleProc
    /\ out = <<>>

NextRuns ==
    \/ \E cs, dr, nc \in BOOLEAN : MainStart(Args(cs, dr, nc))
    \/ Mkstemp(MainWriter)
    \/ MkstempRaises(MainWriter)
    \/ OsWrite(MainWriter)
    \/ OsFsync(MainWriter)
    \/ OsClose(MainWriter)
    \/ OsRename(MainWriter)
    \/ StepRaises(MainWriter)
    \/ Handler(MainWriter)
    \/ HandlerUnlinkRaises(MainWriter)
    \/ MainReturns

SpecRuns == InitRuns /\ [][NextRuns]_vars

(***************************************************************************)
(* Properties of the runs.                                                 *)
(***************************************************************************)
Exited == proc.pc = "exited"

\* the run called write_cache
CalledWriteCache == proc.detected /\ proc.results # <<>>

\* the run's write_cache call raised at one of its four steps on the temporary file
WriteStepFailed ==
    Exited /\ CalledWriteCache /\ wargs[MainWriter].failed \in {"write", "fsync", "close", "rename"}

\* C11 (as claimed): when writing, fsync, close or rename of the temporary
\* file fails, the temporary file is removed, the cache path holds what it held
\* before the call, and the run ends with exit status 2 and no output.
C11_FailedWriteLeavesNoTrace ==
    WriteStepFailed =>
        /\ tmpFiles[MainWriter] = NoFile
        /\ cacheFile = proc.before
        /\ proc.exit = 2
        /\ proc.stdout = NoOutput

\* C11 (amended): when mkstemp or a step on the temporary file fails, the
\* cache path holds what it held before the call and the run ends with exit
\* status 2 and no output; the temporary file is removed unless its removal
\* fails as well, an error that is ignored.
C11_FailedWriteKeepsCache ==
    (Exited /\ CalledWriteCache /\ wargs[MainWriter].failed # "") =>
        /\ cacheFile = proc.before
        /\ proc.exit = 2
        /\ proc.stdout = NoOutput
        /\ tmpFiles[MainWriter] = NoFile <=> wargs[MainWriter].unlink # "raised"

C11_Witness ==
    /\ WriteStepFailed
    /\ wargs[MainWriter].failed = "rename"
    /\ wargs[MainWriter].unlink = "ok"
    /\ proc.before.kind = "file" /\ cacheFile = proc.before
    /\ proc.args.no_cache
    /\ proc.exit = 2

\* two staleness checks of a project directory, one right after the other
TwoChecks ==
    /\ Exited /\ proc.args.check_stale
    /\ prev.pc = "exited" /\ prev.args.check_stale
    /\ Path_is_dir(project)

SameGitAnswers ==
    /\ proc.check.git.shallow = prev.check.git.shallow
    /\ proc.check.git.log = prev.check.git.log
    /\ proc.check.git.rename = prev.check.git.rename

ResultLists ==
    { <<>>,
      <<Result("web-api", 30, TRUE)>>,
      <<Result("game-simulation", 80, TRUE), Result("web-api", 30, FALSE)>>,
      <<Result("cli-tool", 50, TRUE), Result("web-api", 50, FALSE),
        Result("game-simulation", 35, FALSE)>> }

\* structural hashes passed to write_cache: None, or the hash of a project
HashArguments == {""} \cup {compute_structural_hash(p) : p \in {EmptyTree, FlaskTree(0)}}

InitRoundTrip ==
    /\ project = EmptyTree
    /\ repo = NoRepo
    /\ run = Idle
    /\ catalogue = NoIndex
    /\ cacheFile \in {NoFile, File(PrevDoc), File(<<HeaderLine, GarbageLine>>)}
    /\ tmpFiles = [w \in {MainWriter} |-> NoFile]
    /\ wpc = [w \in {MainWriter} |-> "start"]
    /\ wargs \in {[w \in {MainWriter} |-> WriteArgs(results, h, now)] :
                     results \in ResultLists, h \in HashArguments, now \in Times}
    /\ rpc = <<>>
    /\ robs = <<>>
    /\ proc = IdleProc
    /\ prev = IdleProc
    /\ out = <<>>

\* read_cache(path) called after write_cache(path, ...) returned
ReadBack ==
    /\ wpc[MainWriter] = "done"
    /\ out = <<>>
    /\ out' = <<read_cache(cacheFile)>>
    /\ UNCHANGED <<project, repo, cacheFile, run, tmpFiles, wpc, rpc, robs, wargs, catalogue,
                   proc, prev>>

NextRoundTrip ==
    \/ Mkstemp(MainWriter)
    \/ OsWrite(MainWriter)
    \/ OsFsync(MainWriter)
    \/ OsClose(MainWriter)
    \/ OsRename(MainWriter)
    \/ ReadBack

SpecRoundTrip == InitRoundTrip /\ [][NextRoundTrip]_vars

\* the artifact read back carries what was passed to write_cache
SameArtifact ==
    /\ out[1].found
    /\ DictGet(out[1].d, "domains") = YList(wargs[MainWriter].results)
    /\ DictGet(out[1].d, "structural_hash")
         = (IF wargs[MainWriter].structural_hash = "" THEN YNull
            ELSE YStr(wargs[MainWriter].structural_hash))
    /\ DictGet(out[1].d, "detected_at") = YIso(wargs[MainWriter].now)
    /\ DictGet(out[1].d, "cache_version") = YInt(CACHE_VERSION)
    /\ ~HasKey(out[1].d, "override")

\* C13 (as claimed): for every result list and structural hash passed to
\* write_cache, a following read_cache returns an artifact with the same
\* domains, the same structural_hash, the detected_at the write recorded and
\* the current cache_version.
C13_RoundTrip == out # <<>> => SameArtifact

\* C13 (amended): the same for every non-empty result list; after an empty
\* result list is written, read_cache returns no artifact.
C13_RoundTripNonEmpty ==
    out # <<>> =>
        IF wargs[MainWriter].results # <<>> THEN SameArtifact ELSE ~out[1].found

C13_Witness ==
    /\ out # <<>> /\ SameArtifact
    /\ Len(wargs[MainWriter].results) = 3
    /\ wargs[MainWriter].structural_hash # ""
    /\ wargs[MainWriter].now = MaxTime

(***************************************************************************)
(* Properties of detect(). A call is an element of out: its flag, the      *)
(* scores of every catalogue entry and the list it returned.               *)
(***************************************************************************)
Calls == {out[k] : k \in 1..Len(out)}

Entries == 1..Len(catalogue.domains)

\* how many results of the call carry the name p
Reported(call, p) == Cardinality({k \in 1..Len(call.results) : call.results[k].name = p})

\* how many catalogue entries of profile p reach their own threshold in the call
Qualifying(call, p) ==
    Cardinality({j \in Entries : /\ catalogue.domains[j].profile = p
                                 /\ call.scored[j].confidence >= catalogue.domains[j].min_confidence})

Profiles == {catalogue.domains[j].profile : j \in Entries}

\* C14: every confidence lies in [0,1]; a catalogue entry is in the result
\* list iff its confidence is at least its own min_confidence; it is there at
\* most once, and nothing else is in the list.
C14_ThresholdRule ==
    \A call \in Calls :
        /\ \A j \in Entries : call.scored[j].confidence \in 0..(10 * SCALE)
        /\ \A p \in Profiles : Reported(call, p) = Qualifying(call, p)
        /\ \A k \in 1..Len(call.results) :
              /\ call.results[k].name \in Profiles
              /\ call.results[k].confidence \in 0..100

C14_Witness ==
    \E call \in Calls : \E i, j \in Entries :
        /\ catalogue.domains[i].profile # catalogue.domains[j].profile
        /\ catalogue.domains[i].min_confidence > 0
        /\ call.scored[i].confidence = catalogue.domains[i].min_confidence
        /\ Reported(call, catalogue.domains[i].profile) = 1
        /\ call.scored[j].confidence > 0
        /\ call.scored[j].confidence < catalogue.domains[j].min_confidence
        /\ Reported(call, catalogue.domains[j].profile) = 0

\* the catalogue names each profile once
DistinctProfiles ==
    \A i, j \in Entries : catalogue.domains[i].profile = catalogue.domains[j].profile => i = j

\* the catalogue position of a profile
EntryOf(p) == CHOOSE j \in Entries : catalogue.domains[j].profile = p

\* C15: the result list is in descending order of reported confidence,
\* results of equal reported confidence are in catalogue order, the first
\* result is marked primary and no other result is.
C15_OrderAndPrimary ==
    \A call \in Calls :
        LET r == call.results
        IN  /\ \A a, b \in 1..Len(r) : a < b => r[a].confidence >= r[b].confidence
            /\ DistinctProfiles =>
                  \A a, b \in 1..Len(r) :
                      (a < b /\ r[a].confidence = r[b].confidence)
                          => EntryOf(r[a].name) < EntryOf(r[b].name)
            /\ \A a \in 1..Len(r) : r[a].primary <=> a = 1

C15_Witness ==
    \E call \in Calls :
        /\ DistinctProfiles
        /\ Len(call.results) = 2
        /\ call.results[1].confidence = call.results[2].confidence
        /\ call.results[1].confidence > 0
        /\ call.results[1].name = catalogue.domains[1].profile
        /\ call.results[1].primary /\ ~call.results[2].primary

(***************************************************************************)
(* The structural hash of a project before and after changes to it.        *)
(***************************************************************************)
MaxChanges == 2     \* changes to the project between two hash computations

HashNames == {"Makefile", "package.json", "main.py", "player.gd", "api"}

\* what can be at a structural name of the project root
StructuralStates ==
    { AbsentEntry, FileEntry("", 0), FileEntry("v1", 0), FileEntry("v1", MaxTime),
      FileEntry("v2", 0), UnreadableEntry("v1", 0), DirEntry(<<>>, TRUE) }

\* what can be at the other names: a source file, a file with a stack-marker
\* extension, and a directory that holds a file with a structural name
OtherStates(name) ==
    CASE name = "main.py"   -> {AbsentEntry, FileEntry("v1", 0), FileEntry("v2", MaxTime)}
      [] name = "player.gd" -> {AbsentEntry, FileEntry("v1", 0)}
      [] name = "api"       -> {AbsentEntry,
                                DirEntry(Children1("Makefile", FileEntry("v2", 0)), TRUE)}

HashProjects ==
    { [n \in HashNames |->
          CASE n = "Makefile" -> mk
            [] n = "package.json" -> pk
            [] n = "main.py" -> FileEntry("v1", 0)
            [] n = "player.gd" -> AbsentEntry
            [] n = "api" -> api]
      : mk \in StructuralStates, pk \in {AbsentEntry, FileEntry("v1", 0)},
        api \in OtherStates("api") }

\* an element of out: a hash computation with the project it saw, or a change
Hashed(proj) == [kind |-> "hash", project |-> proj, hash |-> compute_structural_hash(proj),
                 parts |-> HashParts(proj)]
Changed == [kind |-> "change", project |-> <<>>, hash |-> "", parts |-> <<>>]

NumberOf(kind) == Cardinality({k \in 1..Len(out) : out[k].kind = kind})

InitHash ==
    /\ project \in HashProjects
    /\ repo = NoRepo
    /\ run = Idle
    /\ catalogue = NoIndex
    /\ cacheFile = NoFile
    /\ tmpFiles = <<>>
    /\ wpc = <<>>
    /\ wargs = <<>>
    /\ rpc = <<>>
    /\ robs = <<>>
    /\ proc = IdleProc
    /\ prev = IdleProc
    /\ out = <<>>

\* compute_structural_hash(project)
ComputeHash ==
    /\ NumberOf("hash") < 2
    /\ IF out = <<>> THEN TRUE ELSE out[Len(out)].kind = "change"
    /\ out' = Append(out, Hashed(project))
    /\ UNCHANGED <<project, repo, cacheFile, run, tmpFiles, wpc, rpc, robs, wargs, catalogue,
                   proc, prev>>

\* a structural file of the project root is added, removed, rewritten, touched,
\* made unreadable, or replaced by a directory
ChangeStructural(name, entry) ==
    /\ NumberOf("hash") = 1 /\ NumberOf("change") < MaxChanges
    /\ entry # project[name]
    /\ project' = [project EXCEPT ![name] = entry]
    /\ out' = Append(out, Changed)
    /\ UNCHANGED <<repo, cacheFile, run, tmpFiles, wpc, rpc, robs, wargs, catalogue, proc, prev>>

\* another file or directory is added, removed or modified
ChangeOther(name, entry) ==
    /\ NumberOf("hash") = 1 /\ NumberOf("change") < MaxChanges
    /\ entry # project[name]
    /\ project' = [project EXCEPT ![name] = entry]
    /\ out' = Append(out, Changed)
    /\ UNCHANGED <<repo, cacheFile, run, tmpFiles, wpc, rpc, robs, wargs, catalogue, proc, prev>>

NextHash ==
    \/ ComputeHash
    \/ \E name \in {"Makefile", "package.json"} : \E entry \in StructuralStates :
          ChangeStructural(name, entry)
    \/ \E name \in {"main.py", "player.gd", "api"} : \E entry \in OtherStates(name) :
          ChangeOther(name, entry)

SpecHash == InitHash /\ [][NextHash]_vars

\* the hash computations recorded in out
Snapshots == {out[k] : k \in {j \in 1..Len(out) : out[j].kind = "hash"}}

\* the entries of the project root at the structural names of the model
\* (the other structural names are absent in every state)
StructuralNames == {"Makefile", "package.json"}

\* two project states hold the same thing at a structural name: the same kind
\* of entry with the same bytes and the same permissions; mtimes may differ
SameStructuralEntry(p, q, name) ==
    /\ p[name].kind = q[name].kind
    /\ p[name].content = q[name].content
    /\ p[name].readable = q[name].readable

Present(p, name) == p[name].kind = "file"

\* C17 (as claimed): when a structural file's content changes, or a
\* structural file is added or removed, the list of parts that is digested
\* changes and so does the structural hash.
C17_SensitiveToStructuralChanges ==
    \A a, b \in Snapshots :
        (\E name \in StructuralNames :
            \/ Present(a.project, name) # Present(b.project, name)
            \/ /\ Present(a.project, name) /\ Present(b.project, name)
               /\ a.project[name].content # b.project[name].content)
            => (a.parts # b.parts /\ a.hash # b.hash)

\* what the hash can see of a structural file: its bytes when it is a regular
\* file that can be read
Legible(p, name) == p[name].kind = "file" /\ p[name].readable

\* C17 (amended): when the content of a readable structural file changes, or
\* a readable structural file is added or removed, the digested list and the
\* structural hash change; a structural file that cannot be read is hashed as
\* absent, and changes to it change nothing.
C17_SensitiveToLegibleChanges ==
    \A a, b \in Snapshots :
        LET differs(name) ==
                \/ Legible(a.project, name) # Legible(b.project, name)
                \/ /\ Legible(a.project, name) /\ Legible(b.project, name)
                   /\ a.project[name].content # b.project[name].content
        IN  /\ (\E name \in StructuralNames : differs(name))
                  => (a.parts # b.parts /\ a.hash # b.hash)
            /\ (\A name \in StructuralNames : ~differs(name)) => a.hash = b.hash

C17_Witness ==
    \E a, b \in Snapshots :
        /\ a.project["Makefile"] = AbsentEntry
        /\ b.project["Makefile"] = FileEntry("", 0)
        /\ a.project["package.json"] = b.project["package.json"]
        /\ a.hash # b.hash

\* a run of main() without --check-stale has ended
NormalRun == Exited /\ ~proc.args.check_stale

\* the project path is not a directory, or there is no file at index_path
InputError == ~Path_is_dir(project) \/ catalogue.kind = "absent"

\* C18 (as claimed): a normal run returns 2, prints nothing and leaves the
\* cache alone on an input error; it returns 1 when detect() reports no
\* domain, 0 when at least one domain is reported by detect() or served from
\* the cache, and never 3 or 4.
C18_ExitCodes ==
    NormalRun =>
        /\ InputError => (proc.exit = 2 /\ proc.stdout = NoOutput /\ cacheFile = proc.before)
        /\ (proc.detected /\ proc.results = <<>>) => proc.exit = 1
        /\ (CalledWriteCache \/ proc.stdout.kind = "domains") => proc.exit = 0
        /\ proc.exit \notin {STALE, NO_CACHE}

\* C18 (amended): as claimed, except that after detect() reported at least
\* one domain the run returns 0 only when write_cache succeeded; when it
\* raised, the run returns 2 and prints nothing.
C18_ExitCodesWithWriteFailure ==
    NormalRun =>
        /\ InputError => (proc.exit = 2 /\ proc.stdout = NoOutput /\ cacheFile = proc.before)
        /\ (proc.detected /\ proc.results = <<>>) => proc.exit = 1
        /\ CalledWriteCache =>
              IF wargs[MainWriter].failed = ""
              THEN proc.exit = 0 /\ proc.stdout = DomainsOutput(YList(proc.results))
              ELSE proc.exit = 2 /\ proc.stdout = NoOutput
        /\ proc.stdout.kind = "domains" => proc.exit = 0
        /\ proc.exit \in {0, 1, 2}

C18_Witness ==
    /\ NormalRun /\ ~InputError
    /\ proc.args.no_cache /\ read_cache(proc.before).found
    /\ proc.detected /\ proc.results = <<>>
    /\ proc.exit = 1
    /\ prev.pc = "exited" /\ ~prev.args.check_stale /\ prev.exit = 0

\* the five manifests of gather_frameworks
ManifestNames == {"Cargo.toml", "go.mod", "package.json", "pyproject.toml", "requirements.txt"}

\* the manifest is absent, cannot be read as a file, or its text is malformed
BrokenManifest(n) ==
    IF project[n].kind = "absent" THEN TRUE
    ELSE IF project[n].kind # "file" \/ ~project[n].readable THEN TRUE
    ELSE ManifestData(project[n].content).raises

\* what the parser of manifest n hands to gather_frameworks
Contribution(n) ==
    CASE n = "package.json" -> _parse_package_json_deps(project)
      [] n = "Cargo.toml" -> _parse_cargo_toml_deps(project)
      [] n = "go.mod" -> _parse_go_mod_deps(project)
      [] n = "pyproject.toml" -> _parse_pyproject_deps(project)
      [] n = "requirements.txt" -> _parse_requirements_txt(project)

\* the dependency names, normalised, of the manifests that are not broken
IntactNames ==
    {Normalise(d) : d \in UNION {ManifestData(project[n].content).names :
                                    n \in {m \in ManifestNames : ~BrokenManifest(m)}}}

ReportedNames(call) == {call.results[k].name : k \in 1..Len(call.results)}

\* detect was called on the project with the shortcut and without it
BothCalls == Len(out) = 2

\* C20: detect with the keyword shortcut reports the same set of domain names
\* as detect without it; the shortcut fires for a catalogue entry exactly when
\* it is enabled and the weighted directory+file+framework sum reaches
\* min_confidence, and then the keyword score is 0 and the confidence is that
\* sum; otherwise the confidence is the full weighted sum.
C20_ShortcutPreservesNames ==
    /\ BothCalls => ReportedNames(out[1]) = ReportedNames(out[2])
    /\ \A call \in Calls : \A k \in Entries :
          LET sc == call.scored[k]
          IN  /\ sc.preliminary = sc.d * W_DIR + sc.f * W_FILE + sc.fw * W_FRAMEWORK
              /\ sc.shortcut <=> (call.skip /\ sc.preliminary >= catalogue.domains[k].min_confidence)
              /\ sc.shortcut => (sc.kw = 0 /\ sc.confidence = sc.preliminary)
              /\ ~sc.shortcut => sc.confidence = sc.preliminary + sc.kw * W_KEYWORD

\* the shortcut fires for one entry, whose keywords would have scored, and
\* not for another, which is reported only because of its keywords
C20_Witness ==
    /\ BothCalls
    /\ \E i, j \in 1..2 : \E k1, k2 \in Entries :
          /\ out[i].skip /\ ~out[j].skip
          /\ out[i].scored[k1].shortcut
          /\ out[j].scored[k1].kw > 0
          /\ out[i].scored[k1].confidence < out[j].scored[k1].confidence
          /\ ~out[i].scored[k2].shortcut
          /\ out[i].scored[k2].preliminary < out[i].scored[k2].min_confidence
          /\ out[i].scored[k2].confidence >= out[i].scored[k2].min_confidence
          /\ ReportedNames(out[i]) # {}

\* the domain names of a call's result list, in the order of the list
RankedNames(call) == [k \in 1..Len(call.results) |-> call.results[k].name]

\* the names of the results marked primary
PrimaryNames(call) == {call.results[k].name : k \in {i \in 1..Len(call.results) : call.results[i].primary}}

\* C21: the result list of detect has the same order of domain names, and the
\* same domain marked primary, with the keyword shortcut as without it.
C21_ShortcutPreservesRanking ==
    BothCalls =>
        /\ RankedNames(out[1]) = RankedNames(out[2])
        /\ PrimaryNames(out[1]) = PrimaryNames(out[2])

\* the check went past tier 1: tier 2 was called
Tier2Reached == Done /\ run.tier \in {"tier2", "tier3"}

\* the project has no .git, or its repository is a shallow clone
Tier2NotApplicable == ~repo.exists \/ repo.shallow

\* C22: when tier 2 is called on a project that is not a repository or is a
\* shallow clone, it gives no verdict and does not query the change log, and
\* the check returns the verdict of tier 3.
C22_Tier2Applicability ==
    (Tier2Reached /\ Tier2NotApplicable)
        => /\ run.tier = "tier3"
           /\ run.git.log = "uncalled" /\ run.git.rename = "uncalled"
           /\ run.code = Tier3Verdict

\* the source files gather_keywords reads in the project, in reading order
Sampled == SampledSources(project, KeywordLimit)

\* the source files of the project root that gather_keywords may read
EligibleRootFiles ==
    {n \in Listing(project) : project[n].kind = "file" /\ Path_suffix(n) \in SOURCE_EXTENSIONS}

\* at most the limit of files is read, each with a source extension, none
\* below a hidden directory, none deeper than one directory
SampleBounded ==
    /\ Len(Sampled) <= KeywordLimit
    /\ \A k \in 1..Len(Sampled) :
          /\ Len(Sampled[k].path) \in {1, 2}
          /\ Path_suffix(Sampled[k].path[Len(Sampled[k].path)]) \in SOURCE_EXTENSIONS
          /\ Sampled[k].entry.kind = "file"
          /\ ~StartsWithDot(Sampled[k].path[1])

\* every source file of the root is read before any file of a subdirectory
SampleBreadthFirst ==
    /\ \A i, j \in 1..Len(Sampled) :
          (Len(Sampled[i].path) = 2 /\ Len(Sampled[j].path) = 1) => j < i
    /\ (\E k \in 1..Len(Sampled) : Len(Sampled[k].path) = 2)
          => \A n \in EligibleRootFiles : \E k \in 1..Len(Sampled) : Sampled[k].path = <<n>>

\* C23: in every call of detect, gather_keywords reads at most 5 source
\* files, breadth-first: the source files of the project root before any
\* file of a subdirectory; only files with a source extension, nothing in a
\* hidden directory, nothing deeper than one subdirectory.
C23_KeywordSampling ==
    Calls # {} => (SampleBounded /\ SampleBreadthFirst)

\* the run before this one detected at least one domain, wrote the cache and
\* returned 0
PrevDetectedAndWrote ==
    /\ prev.pc = "exited" /\ ~prev.args.check_stale
    /\ prev.detected /\ prev.results # <<>> /\ prev.exit = 0

\* C24: a staleness check that follows a run which detected at least one
\* domain and wrote the cache, on the unchanged project, returns FRESH at
\* tier 1: the artifact is readable, has the current cache_version and the
\* structural hash the check recomputes.
C24_FreshAfterDetection ==
    (Exited /\ proc.args.check_stale /\ PrevDetectedAndWrote) =>
        /\ proc.exit = FRESH
        /\ proc.check.tier = "tier1"
        /\ proc.before = cacheFile
        /\ read_cache(cacheFile).found
        /\ DictGet(read_cache(cacheFile).d, "cache_version") = YInt(CACHE_VERSION)
        /\ DictGet(read_cache(cacheFile).d, "structural_hash")
              = YStr(compute_structural_hash(project))
        /\ DictGet(read_cache(cacheFile).d, "domains") = YList(prev.results)

\* the detection replaced a cache of another version, and the project has a
\* structural file newer than the new detected_at
C24_Witness ==
    /\ Exited /\ proc.args.check_stale /\ PrevDetectedAndWrote
    /\ proc.exit = FRESH
    /\ prev.before.kind = "file" /\ prev.before # cacheFile
    /\ DictGet(read_cache(prev.before).d, "cache_version") # YInt(CACHE_VERSION)
    /\ \E n \in DOMAIN project :
          /\ project[n].kind = "file"
          /\ YIso(project[n].mtime - 1) = DictGet(read_cache(cacheFile).d, "detected_at")

\* C25: at every point of a run, the cache file differs from what it was when
\* the run started only if the run is a normal run that ran detection, got at
\* least one domain and completed write_cache; then it holds the payload of
\* that call. Staleness checks, cache hits, override runs, runs that detect
\* nothing and runs that fail leave the file as it was.
C25_OnlyDetectionWritesCache ==
    proc.pc # "idle" =>
        /\ cacheFile # proc.before =>
              /\ ~proc.args.check_stale
              /\ proc.detected /\ proc.results # <<>>
              /\ wpc[MainWriter] = "done" /\ wargs[MainWriter].failed = ""
              /\ cacheFile = File(WriterDoc(MainWriter))
              /\ Exited => proc.exit = 0
        /\ (Exited /\ (proc.args.check_stale \/ ~proc.detected \/ proc.exit \in {1, 2}))
              => cacheFile = proc.before

\* a traced staleness check left the cache as it was, and the forced rescan
\* after it replaced it
C25_Witness ==
    /\ Exited /\ NormalRun /\ CalledWriteCache /\ proc.args.no_cache
    /\ proc.exit = 0
    /\ proc.before.kind = "file" /\ cacheFile # proc.before
    /\ prev.pc = "exited" /\ prev.args.check_stale /\ prev.args.dry_run
    /\ prev.before = proc.before

\* the file is a readable artifact with override: true
OverrideArtifact(file) ==
    /\ read_cache(file).found
    /\ DictGet(read_cache(file).d, "override") = YBool(TRUE)

\* the run printed the domains of the artifact it found, ran no detection
\* and left the cache file as it was
ServedFromCache ==
    /\ Exited
    /\ proc.exit = 0
    /\ proc.stdout = DomainsOutput(DictGet(read_cache(proc.before).d, "domains"))
    /\ ~proc.detected
    /\ cacheFile = proc.before

\* C26 (as claimed): a normal run that finds a readable artifact with
\* override true, with or without --no-cache, returns the cached domains with
\* exit 0, runs no detection and does not rewrite the cache.
C26_OverrideSurvives ==
    (proc.pc # "idle" /\ ~proc.args.check_stale /\ OverrideArtifact(proc.before))
        => ServedFromCache

\* C26 (amended): the same for a normal run whose project path is a directory
\* and whose catalogue file exists; on an input error the run returns 2 with
\* no output, and in both cases the cache file is left as it was.
C26_OverrideSurvivesGivenInputs ==
    (proc.pc # "idle" /\ ~proc.args.check_stale /\ OverrideArtifact(proc.before))
        => /\ Exited /\ ~proc.detected /\ cacheFile = proc.before
           /\ OverrideArtifact(cacheFile)
           /\ IF InputError THEN proc.exit = 2 /\ proc.stdout = NoOutput
              ELSE ServedFromCache

\* a forced rescan after a plain run, both served from an override artifact
\* of another cache version, with a catalogue that cannot be loaded
C26_Witness ==
    /\ ServedFromCache /\ ~proc.args.check_stale /\ proc.args.no_cache
    /\ OverrideArtifact(proc.before)
    /\ DictGet(read_cache(proc.before).d, "cache_version") # YInt(CACHE_VERSION)
    /\ prev.pc = "exited" /\ ~prev.args.check_stale /\ ~prev.args.no_cache /\ prev.exit = 0
    /\ prev.before = cacheFile
    /\ catalogue = MalformedIndex

\* a normal run without --no-cache that found a readable artifact
PlainRunOnArtifact ==
    /\ proc.pc # "idle" /\ ~proc.args.check_stale /\ ~proc.args.no_cache
    /\ read_cache(proc.before).found

\* C27 (as claimed): a normal run without --no-cache that finds a readable
\* artifact returns its domains with exit 0, runs no detection and leaves the
\* artifact unchanged, whatever its cache_version, structural_hash and
\* detected_at: also when a staleness check calls it STALE.
C27_CacheHitIgnoresStaleness ==
    PlainRunOnArtifact => ServedFromCache

\* C27 (amended): the same for a run whose project path is a directory and
\* whose catalogue file exists; on an input error the run returns 2 with no
\* output and leaves the artifact unchanged.
C27_CacheHitIgnoresStalenessGivenInputs ==
    PlainRunOnArtifact =>
        /\ Exited /\ ~proc.detected /\ cacheFile = proc.before
        /\ IF InputError THEN proc.exit = 2 /\ proc.stdout = NoOutput
           ELSE ServedFromCache

\* the staleness check just called the artifact STALE on its structural
\* hash, and the run after it serves the artifact
C27_Witness ==
    /\ PlainRunOnArtifact /\ ServedFromCache
    /\ prev.pc = "exited" /\ prev.args.check_stale
    /\ prev.exit = STALE /\ prev.check.tier = "tier1"
    /\ prev.before = proc.before

(***************************************************************************)
(* content-hash.py: the files it discovers and the hash it computes. A     *)
(* project is a function from relative paths to entries; the order in      *)
(* which the filesystem enumerates directory entries is an input of every  *)
(* run.                                                                    *)
(***************************************************************************)
README_NAMES == <<"README.md", "README.rst", "README.txt", "README">>

BUILD_FILES ==
    <<"package.json", "go.mod", "Cargo.toml", "pyproject.toml", "build.gradle", "pom.xml",
      "Makefile", "CMakeLists.txt">>

SOURCE_DIRS == <<"src", "lib">>

\* SOURCE_EXTENSIONS of content-hash.py
KEY_SOURCE_EXTENSIONS ==
    { ".py", ".go", ".rs", ".ts", ".js", ".jsx", ".tsx", ".java", ".kt", ".swift", ".c",
      ".cpp", ".h", ".hpp", ".rb", ".cs", ".dart", ".gd", ".lua", ".zig" }

MAX_SOURCE_FILES == 3

\* the relative paths of the model, in the order of str comparison
RelPathOrder ==
    <<"Makefile", "README.md", "README.rst", "lib/util.ts", "main.py", "package.json",
      "src/app.py", "src/cli.py", "src/index.ts", "src/notes.txt", "src/view.ts">>

RelPaths == {RelPathOrder[k] : k \in 1..Len(RelPathOrder)}

\* the directory of a relative path ("." is the project root), and Path.suffix
ParentDir(path) ==
    CASE path \in {"src/app.py", "src/cli.py", "src/index.ts", "src/notes.txt", "src/view.ts"} -> "src"
      [] path = "lib/util.ts" -> "lib"
      [] OTHER -> "."

RelSuffix(path) ==
    CASE path \in {"main.py", "src/app.py", "src/cli.py"} -> ".py"
      [] path \in {"lib/util.ts", "src/index.ts", "src/view.ts"} -> ".ts"
      [] path = "src/notes.txt" -> ".txt"
      [] path = "package.json" -> ".json"
      [] path = "README.md" -> ".md"
      [] path = "README.rst" -> ".rst"
      [] OTHER -> ""

\* a file with null bytes among its first bytes
BinaryContent == "\\0binary"

\* _is_binary(path): too large, null bytes, or not readable
_is_binary(proj, path) == ~proj[path].readable \/ proj[path].content = BinaryContent

_find_readme(proj) ==
    LET found == SelectSeq(README_NAMES,
                           LAMBDA n : is_file(proj, n) /\ ~_is_binary(proj, n))
    IN  IF found = <<>> THEN <<>> ELSE <<Head(found)>>

_find_build_files(proj) ==
    SelectSeq(BUILD_FILES, LAMBDA n : is_file(proj, n) /\ ~_is_binary(proj, n))

\* the entries of directory dir, in the order the filesystem yields them
Enumerate(proj, order, dir) ==
    SelectSeq(order, LAMBDA p : ParentDir(p) = dir /\ is_file(proj, p))

\* (project / dirname).is_dir()
IsSourceDir(proj, dir) == \E p \in DOMAIN proj : ParentDir(p) = dir /\ proj[p].kind # "absent"

\* the files of an enumeration that may be key source files
Eligible(proj, entries) ==
    SelectSeq(entries, LAMBDA p : RelSuffix(p) \in KEY_SOURCE_EXTENSIONS /\ ~_is_binary(proj, p))

RECURSIVE CandidatesOf(_, _, _)
CandidatesOf(proj, order, dirs) ==
    IF dirs = <<>> THEN <<>>
    ELSE (IF IsSourceDir(proj, Head(dirs))
          THEN Eligible(proj, Enumerate(proj, order, Head(dirs))) ELSE <<>>)
         \o CandidatesOf(proj, order, Tail(dirs))

\* how many candidates have the suffix
SuffixCount(candidates, ext) ==
    Cardinality({k \in 1..Len(candidates) : RelSuffix(candidates[k]) = ext})

\* Counter(c.suffix for c in candidates).most_common(1)[0][0]: the largest
\* count; among equal counts the suffix that was counted first
most_common(candidates) ==
    LET best == {k \in 1..Len(candidates) :
                    \A j \in 1..Len(candidates) :
                        SuffixCount(candidates, RelSuffix(candidates[j]))
                            <= SuffixCount(candidates, RelSuffix(candidates[k]))}
        first == CHOOSE k \in best : \A j \in best : k <= j
    IN  RelSuffix(candidates[first])

\* sorted(paths, key=str(relative path))
SortedByRelPath(paths) == SelectSeq(RelPathOrder, LAMBDA p : p \in paths)

Prefix(s, n) == SubSeq(s, 1, IF Len(s) < n THEN Len(s) ELSE n)

_find_key_source_files(proj, order) ==
    LET in_dirs == CandidatesOf(proj, order, SOURCE_DIRS)
        candidates == IF in_dirs # <<>> THEN in_dirs
                      ELSE Eligible(proj, Enumerate(proj, order, "."))
    IN  IF candidates = <<>> THEN <<>>
        ELSE LET dominant_ext == most_common(candidates)
                 filtered == {candidates[k] : k \in {j \in 1..Len(candidates) :
                                                        RelSuffix(candidates[j]) = dominant_ext}}
             IN  Prefix(SortedByRelPath(filtered), MAX_SOURCE_FILES)

discover_files(proj, order) ==
    LET files == _find_readme(proj) \o _find_build_files(proj)
                    \o _find_key_source_files(proj, order)
    IN  SortedByRelPath({files[k] : k \in 1..Len(files)})

\* the bytes fed to the digest: lines 198-208
RECURSIVE HashInput(_, _, _)
HashInput(proj, files, i) ==
    IF i > Len(files) THEN ""
    ELSE IF ~proj[files[i]].readable THEN HashInput(proj, files, i + 1)
    ELSE (IF i > 1 THEN "\\0" ELSE "") \o files[i] \o "\\0" \o proj[files[i]].content
            \o HashInput(proj, files, i + 1)

compute_hash(proj, files) == "sha256:" \o sha256_hexdigest(HashInput(proj, files, 1))

(***************************************************************************)
(* Runs of content-hash.py on one project, each with the enumeration order *)
(* the filesystem happens to give.                                         *)
(***************************************************************************)
MaxScans == 2       \* runs of content-hash.py on the project

RECURSIVE Orders(_)
Orders(S) ==
    IF S = {} THEN {<<>>}
    ELSE UNION {{<<x>> \o o : o \in Orders(S \ {x})} : x \in S}

ContentTree(present, binary) ==
    [p \in RelPaths |->
        IF p \in binary THEN FileEntry(BinaryContent, 0)
        ELSE IF p \in present THEN FileEntry("v1", 0)
        ELSE AbsentEntry]

SourceSets ==
    { {}, {"main.py"}, {"src/notes.txt", "main.py"}, {"src/app.py", "src/index.ts"},
      {"src/app.py", "src/cli.py", "src/index.ts"},
      {"src/app.py", "src/cli.py", "src/index.ts", "src/view.ts"},
      {"src/app.py", "lib/util.ts", "main.py"}, {"lib/util.ts", "main.py"} }

ContentProjects ==
    { ContentTree(docs \cup sources, binary) :
        docs \in {{}, {"README.rst", "Makefile"}, {"README.md", "README.rst", "package.json"}},
        sources \in SourceSets,
        binary \in {{}, {"README.md"}, {"src/app.py"}} }

\* the files a run may meet while it enumerates directories
Enumerated(proj) == {p \in RelPaths : proj[p].kind = "file" /\ RelSuffix(p) \in KEY_SOURCE_EXTENSIONS}

InitContent ==
    /\ project \in ContentProjects
    /\ catalogue = <<>>
    /\ repo = NoRepo
    /\ cacheFile = NoFile
    /\ run = Idle
    /\ tmpFiles = <<>>
    /\ wpc = <<>>
    /\ rpc = <<>>
    /\ robs = <<>>
    /\ wargs = <<>>
    /\ proc = <<>>
    /\ prev = <<>>
    /\ out = <<>>

\* one run: discover_files, then compute_hash
ContentHash ==
    /\ Len(out) < MaxScans
    /\ \E order \in Orders(Enumerated(project)) :
          \E files \in {discover_files(project, order)} :
             out' = Append(out, [order |-> order, files |-> files,
                                 hash |-> compute_hash(project, files)])
    /\ UNCHANGED <<project, repo, cacheFile, run, tmpFiles, wpc, rpc, robs, wargs, catalogue,
                   proc, prev>>

NextContent == ContentHash

SpecContent == InitContent /\ [][NextContent]_vars

\* C28: every run of content-hash.py on the same project content gives the
\* same file list in the same order and the same hash, whatever order the
\* filesystem enumerates directory entries in, ties for the most common
\* source extension included.
C28_ContentHashDeterministic ==
    \A i, j \in 1..Len(out) :
        /\ out[i].files = out[j].files
        /\ out[i].hash = out[j].hash

====
